---- MODULE Spec2Model ----
(***************************************************************************)
(* Attribute store and attribute resolver of an entity                     *)
(* (pumpkin/src/entity/attribute_manager.rs).                              *)
(*                                                                         *)
(* f64 values are modelled as exact rationals <<numerator, denominator>>   *)
(* in lowest terms with a positive denominator; every amount used below is *)
(* a small decimal or dyadic fraction, so no rounding takes place.         *)
(* Option<T> is a sequence of length 0 (None) or 1 (Some(x)).              *)
(***************************************************************************)
EXTENDS Integers, Sequences, FiniteSets, TLC

\* ------------------------------------------------------------------ bounds

\* Largest number of modifier sources (equipped stacks, the main-hand
\* override, active status effects) an input state carries.
MaxSources == 2

\* Largest status-effect amplifier of an input state.
MaxAmplifier == 1

\* ------------------------------------------------------------- f64 values

Abs(x) == IF x < 0 THEN -x ELSE x

RECURSIVE Gcd(_, _)
Gcd(a, b) == IF b = 0 THEN a ELSE Gcd(b, a % b)

\* The f64 with value n/d.
F64(n, d) ==
    LET g == Gcd(Abs(n), Abs(d))
        s == IF d < 0 THEN -1 ELSE 1
    IN  <<(s * n) \div g, (s * d) \div g>>

\* a + b on f64 (over the least common denominator)
FAdd(a, b) ==
    LET g == Gcd(a[2], b[2])
    IN  F64(a[1] * (b[2] \div g) + b[1] * (a[2] \div g), (a[2] \div g) * b[2])

\* a * b on f64 (common factors are cancelled before multiplying)
FMul(a, b) ==
    LET g1 == Gcd(Abs(a[1]), b[2])
        g2 == Gcd(Abs(b[1]), a[2])
    IN  F64((a[1] \div g1) * (b[1] \div g2), (a[2] \div g2) * (b[2] \div g1))

\* ------------------------------------------------------------ static data

\* pumpkin_data::attributes::Attribute: the registry's attribute identifiers.
Attribute == {"ARMOR", "ATTACK_DAMAGE", "LUCK"}

\* Attribute::get_fallback: the registry's default value of an attribute.
get_fallback(attr) ==
    CASE attr = "ARMOR"         -> F64(0, 1)
      [] attr = "ATTACK_DAMAGE" -> F64(2, 1)
      [] attr = "LUCK"          -> F64(0, 1)

\* pumpkin_data::data_component_impl::Operation
Operation == {"AddValue", "AddMultipliedBase", "AddMultipliedTotal"}

\* pumpkin_data::AttributeModifierSlot, in the order of the match in get_modified.
AttributeModifierSlot ==
    <<"Any", "MainHand", "OffHand", "Hand", "Feet", "Legs", "Chest", "Head",
      "Armor", "Body", "Saddle">>

\* EquipmentSlot::discriminant(): mainhand=0, offhand=1, feet=2, legs=3,
\* chest=4, head=5, body=6, saddle=7.
EquipmentSlot == 0 .. 7

\* An item's Modifier (data_component_impl::Modifier).
Modifier(type, operation, amount, slot) ==
    [type |-> type, operation |-> operation, amount |-> amount, slot |-> slot]

\* A status effect's modifier (effect::Modifiers).
Modifiers(attribute, base_value, operation) ==
    [attribute |-> attribute, base_value |-> base_value, operation |-> operation]

RECURSIVE Pow2(_)
Pow2(k) == IF k = 0 THEN 1 ELSE 2 * Pow2(k - 1)

\* The attribute-modifier components item stacks carry in the model: a
\* sequence of length 0 is an item without the component, <<list>> an item
\* whose AttributeModifiersImpl holds list.
\*   Probe:    one AddValue modifier per slot predicate, amounts 1, 2, 4, ...
\*             (the sum of the applied amounts names the predicates that
\*             accepted), and one modifier for another attribute.
\*   Mixed:    AddValue(+5) then AddMultipliedBase(0.5).
\*   Compound: AddMultipliedTotal(0.1) twice.
ProbeModifiers ==
    [k \in 1 .. Len(AttributeModifierSlot) |->
        Modifier("ARMOR", "AddValue", F64(Pow2(k - 1), 1), AttributeModifierSlot[k])]
    \o <<Modifier("ATTACK_DAMAGE", "AddMultipliedTotal", F64(1, 1), "Any")>>

MixedModifiers ==
    <<Modifier("ARMOR", "AddValue", F64(5, 1), "Any"),
      Modifier("ARMOR", "AddMultipliedBase", F64(1, 2), "Any")>>

CompoundModifiers ==
    <<Modifier("ARMOR", "AddMultipliedTotal", F64(1, 10), "Any"),
      Modifier("ARMOR", "AddMultipliedTotal", F64(1, 10), "Any")>>

ItemComponents ==
    {<<>>, <<ProbeModifiers>>, <<MixedModifiers>>, <<CompoundModifiers>>}

\* The static status-effect table of the model (StatusEffect::attribute_modifiers),
\* keyed by StatusEffect::id.
StatusEffect == {1, 2, 3}

attribute_modifiers(status_effect) ==
    CASE status_effect = 1 ->
            <<Modifiers("ARMOR", F64(3, 1), "AddValue"),
              Modifiers("ATTACK_DAMAGE", F64(1, 1), "AddValue")>>
      [] status_effect = 2 ->
            <<Modifiers("ARMOR", F64(1, 2), "AddMultipliedTotal")>>
      [] status_effect = 3 ->
            <<Modifiers("LUCK", F64(1, 1), "AddValue"),
              Modifiers("ARMOR", F64(1, 1), "AddMultipliedBase")>>

\* ---------------------------------------------------------------- builder

\* AttributeManagerBuilder::new
new == <<>>

\* AttributeManagerBuilder::add
add(self, attr, default_base_value) == Append(self, <<attr, default_base_value>>)

\* add_with_fallback_value that pushes 0.0 instead of the registry's value.
add_with_fallback_value_zero(self, attr) == Append(self, <<attr, F64(0, 1)>>)

\* AttributeManagerBuilder::add_with_fallback_value
add_with_fallback_value(self, attr) == Append(self, <<attr, get_fallback(attr)>>)

\* AttributeValueTuple
AttributeValueTuple(def_val) == [default |-> def_val, current_base_value |-> def_val]

\* AttributeManagerBuilder::build: a later entry for an attribute replaces
\* an earlier one.
RECURSIVE build(_)
build(self) ==
    IF self = <<>> THEN <<>>
    ELSE LET n    == Len(self)
             rest == build(SubSeq(self, 1, n - 1))
             attr == self[n][1]
         IN  [a \in (DOMAIN rest) \cup {attr} |->
                 IF a = attr THEN AttributeValueTuple(self[n][2]) ELSE rest[a]]

\* ------------------------------------------------------------------ state

\* The callers of the attribute manager (tasks of the async runtime).
Threads == {"t1", "t2"}

\* The Arc<Mutex<ItemStack>> handles of the model.
StackHandles == {"s1", "s2"}

VARIABLES
    values,          \* AttributeManager::values: attr -> AttributeValueTuple
    equipment,       \* EntityEquipment::equipment: slot -> stack handle
    stacks,          \* handle -> Option<attribute modifier list> of the ItemStack
    main_hand,       \* the main_hand argument the entity passes: Option<handle>
    effects,         \* the status-effect map: StatusEffect id -> amplifier
    effects_iter,    \* the order in which that HashMap currently iterates its keys
    equipment_lock,  \* owner of the equipment Mutex, or "free"
    stack_lock,      \* handle -> owner of the stack's Mutex, or "free"
    effects_lock,    \* owner of the effects Mutex, or "free"
    pc,              \* thread -> position
    call,            \* thread -> the call in progress or last made
    ncalls,          \* thread -> number of calls started
    frame,           \* thread -> locals of get_modified
    ret,             \* thread -> result of the last finished call
    trace,           \* thread -> modifiers visited by the get_modified call
    set_values,      \* attr -> values passed to set_base so far
    last_store,      \* attr -> the last store to the cell: operation and value given
    resolved,        \* thread -> inputs and result of its finished resolutions
    builder,         \* AttributeManagerBuilder.0: the (attribute, default) pairs pushed
    adds,            \* the calls made on the builder in a behaviour that builds the store
    built,           \* whether build has consumed the builder
    entity,          \* the Entity's motion cells (one AtomicCell per field)
    level,           \* the world around the entity: block shapes and fluids
    events           \* the world queries and callbacks made so far, in order

vars ==
    <<values, equipment, stacks, main_hand, effects, effects_iter,
      equipment_lock, stack_lock, effects_lock, pc, call, ncalls, frame, ret,
      trace, set_values, last_store, resolved, builder, adds, built,
      entity, level, events>>

construction == <<builder, adds, built>>
physics == <<entity, level, events>>

world == <<equipment, stacks, main_hand, effects, effects_iter>>
locks == <<equipment_lock, stack_lock, effects_lock>>

\* Result<T, AttributeNoteFoundError>
Ok(v) == [ok |-> TRUE, value |-> v]
AttributeNoteFoundError == [ok |-> FALSE, value |-> <<>>]

NoFrame ==
    [attr |-> "", base |-> <<>>, modified |-> <<>>, equipment_data |-> <<>>, i |-> 0]

\* ------------------------------------------------------- attribute store

\* AttributeManager::get_base
get_base(t, attr) ==
    /\ built
    /\ pc[t] = "idle"
    /\ UNCHANGED <<construction, physics>>
    /\ call' = [call EXCEPT ![t] = [op |-> "get_base", attr |-> attr, value |-> <<>>]]
    /\ ncalls' = [ncalls EXCEPT ![t] = @ + 1]
    /\ ret' = [ret EXCEPT ![t] =
                  IF attr \in DOMAIN values
                  THEN Ok(values[attr].current_base_value)
                  ELSE AttributeNoteFoundError]
    /\ UNCHANGED <<values, world, locks, pc, frame, trace, set_values, last_store,
                   resolved>>

\* set_base as a read-modify-write: the value is added to the base value read.
set_base_accumulating(t, attr, value) ==
    /\ built
    /\ pc[t] = "idle"
    /\ UNCHANGED <<construction, physics>>
    /\ call' = [call EXCEPT ![t] = [op |-> "set_base", attr |-> attr, value |-> value]]
    /\ ncalls' = [ncalls EXCEPT ![t] = @ + 1]
    /\ IF attr \in DOMAIN values
       THEN /\ values' = [values EXCEPT ![attr].current_base_value = FAdd(@, value)]
            /\ set_values' = [set_values EXCEPT ![attr] = @ \cup {value}]
            /\ last_store' = [last_store EXCEPT ![attr] = [op |-> "set_base", value |-> value]]
            /\ ret' = [ret EXCEPT ![t] = Ok(<<>>)]
       ELSE /\ ret' = [ret EXCEPT ![t] = AttributeNoteFoundError]
            /\ UNCHANGED <<values, set_values, last_store>>
    /\ UNCHANGED <<world, locks, pc, frame, trace, resolved>>

\* AttributeManager::set_base
set_base(t, attr, value) ==
    /\ built
    /\ pc[t] = "idle"
    /\ UNCHANGED <<construction, physics>>
    /\ call' = [call EXCEPT ![t] = [op |-> "set_base", attr |-> attr, value |-> value]]
    /\ ncalls' = [ncalls EXCEPT ![t] = @ + 1]
    /\ IF attr \in DOMAIN values
       THEN /\ values' = [values EXCEPT ![attr].current_base_value = value]
            /\ set_values' = [set_values EXCEPT ![attr] = @ \cup {value}]
            /\ last_store' = [last_store EXCEPT ![attr] = [op |-> "set_base", value |-> value]]
            /\ ret' = [ret EXCEPT ![t] = Ok(<<>>)]
       ELSE /\ ret' = [ret EXCEPT ![t] = AttributeNoteFoundError]
            /\ UNCHANGED <<values, set_values, last_store>>
    /\ UNCHANGED <<world, locks, pc, frame, trace, resolved>>

\* reset_base that returns the default without storing it.
reset_base_without_store(t, attr) ==
    /\ built
    /\ pc[t] = "idle"
    /\ UNCHANGED <<construction, physics>>
    /\ call' = [call EXCEPT ![t] = [op |-> "reset_base", attr |-> attr, value |-> <<>>]]
    /\ ncalls' = [ncalls EXCEPT ![t] = @ + 1]
    /\ IF attr \in DOMAIN values
       THEN /\ last_store' = [last_store EXCEPT ![attr] =
                                 [op |-> "reset_base", value |-> values[attr].default]]
            /\ ret' = [ret EXCEPT ![t] = Ok(values[attr].default)]
       ELSE /\ ret' = [ret EXCEPT ![t] = AttributeNoteFoundError]
            /\ UNCHANGED last_store
    /\ UNCHANGED <<values, world, locks, pc, frame, trace, set_values, resolved>>

\* AttributeManager::reset_base
reset_base(t, attr) ==
    /\ built
    /\ pc[t] = "idle"
    /\ UNCHANGED <<construction, physics>>
    /\ call' = [call EXCEPT ![t] = [op |-> "reset_base", attr |-> attr, value |-> <<>>]]
    /\ ncalls' = [ncalls EXCEPT ![t] = @ + 1]
    /\ IF attr \in DOMAIN values
       THEN /\ values' = [values EXCEPT ![attr].current_base_value = values[attr].default]
            /\ last_store' = [last_store EXCEPT ![attr] =
                                 [op |-> "reset_base", value |-> values[attr].default]]
            /\ ret' = [ret EXCEPT ![t] = Ok(values[attr].default)]
       ELSE /\ ret' = [ret EXCEPT ![t] = AttributeNoteFoundError]
            /\ UNCHANGED <<values, last_store>>
    /\ UNCHANGED <<world, locks, pc, frame, trace, set_values, resolved>>

\* ----------------------------------------------------- attribute resolver

\* `equipment.iter()`: the (slot, stack) pairs of the equipment in slot
\* order, lowest discriminant first.
RECURSIVE equipment_iter(_, _)
equipment_iter(eq, from) ==
    IF from > 7 THEN <<>>
    ELSE (IF from \in DOMAIN eq THEN <<<<from, eq[from]>>>> ELSE <<>>)
         \o equipment_iter(eq, from + 1)

\* is_applicable with the head slot left out of Armor.
is_applicable_armor_without_head(modifier_slot, slot) ==
    CASE modifier_slot = "Any"      -> TRUE
      [] modifier_slot = "MainHand" -> slot = 0
      [] modifier_slot = "OffHand"  -> slot = 1
      [] modifier_slot = "Hand"     -> slot \in 0 .. 1
      [] modifier_slot = "Feet"     -> slot = 2
      [] modifier_slot = "Legs"     -> slot = 3
      [] modifier_slot = "Chest"    -> slot = 4
      [] modifier_slot = "Head"     -> slot = 5
      [] modifier_slot = "Armor"    -> slot \in 2 .. 4
      [] modifier_slot = "Body"     -> slot = 6
      [] modifier_slot = "Saddle"   -> slot = 7

\* The match on modifier.slot: whether a modifier is active in `slot`.
is_applicable(modifier_slot, slot) ==
    CASE modifier_slot = "Any"      -> TRUE
      [] modifier_slot = "MainHand" -> slot = 0
      [] modifier_slot = "OffHand"  -> slot = 1
      [] modifier_slot = "Hand"     -> slot \in 0 .. 1
      [] modifier_slot = "Feet"     -> slot = 2
      [] modifier_slot = "Legs"     -> slot = 3
      [] modifier_slot = "Chest"    -> slot = 4
      [] modifier_slot = "Head"     -> slot = 5
      [] modifier_slot = "Armor"    -> slot \in 2 .. 5
      [] modifier_slot = "Body"     -> slot = 6
      [] modifier_slot = "Saddle"   -> slot = 7

\* apply_item_modifier with AddMultipliedBase multiplying the running value.
apply_item_modifier_running_base(operation, amount, base, modified) ==
    CASE operation = "AddValue"           -> FAdd(modified, amount)
      [] operation = "AddMultipliedBase"  -> FAdd(modified, FMul(amount, modified))
      [] operation = "AddMultipliedTotal" -> FAdd(modified, FMul(amount, modified))

\* The match on modifier.operation of an item modifier.
apply_item_modifier(operation, amount, base, modified) ==
    CASE operation = "AddValue"           -> FAdd(modified, amount)
      [] operation = "AddMultipliedBase"  -> FAdd(modified, FMul(amount, base))
      [] operation = "AddMultipliedTotal" -> FAdd(modified, FMul(amount, modified))

\* apply_effect_modifier with AddMultipliedTotal multiplying the base value.
apply_effect_modifier_total_of_base(operation, amount, base, modified) ==
    CASE operation = "AddValue"           -> FAdd(modified, amount)
      [] operation = "AddMultipliedBase"  -> FAdd(modified, FMul(amount, base))
      [] operation = "AddMultipliedTotal" -> FAdd(modified, FMul(amount, base))

\* The match on modifier.operation of a status-effect modifier.
apply_effect_modifier(operation, amount, base, modified) ==
    CASE operation = "AddValue"           -> FAdd(modified, amount)
      [] operation = "AddMultipliedBase"  -> FAdd(modified, FMul(amount, base))
      [] operation = "AddMultipliedTotal" -> FAdd(modified, FMul(amount, modified))

\* effect_amount without the + 1.0.
effect_amount_without_one(base_value, amplifier) == FMul(base_value, F64(amplifier, 1))

\* amount = modifier.base_value * (effect.amplifier as f64 + 1.0)
effect_amount(base_value, amplifier) == FMul(base_value, F64(amplifier + 1, 1))

\* Whether the loop over a stack's modifiers applies `modifier` (neither
\* `continue` is taken).
item_modifier_applies(modifier, attr, slot) ==
    /\ modifier.type = attr
    /\ is_applicable(modifier.slot, slot)

\* effect_modifier_applies without the test of the attribute.
effect_modifier_applies_to_all(modifier, attr) == TRUE

\* Whether the loop over an effect's modifiers applies `modifier`.
effect_modifier_applies(modifier, attr) == modifier.attribute = attr

\* `for modifier in item_modifiers`, from the k-th modifier on. acc holds the
\* running `modified` and the record of the modifiers visited so far.
RECURSIVE item_modifiers_loop(_, _, _, _, _, _)
item_modifiers_loop(item_modifiers, k, slot, attr, base, acc) ==
    IF k > Len(item_modifiers) THEN acc
    ELSE LET modifier == item_modifiers[k]
             hit      == item_modifier_applies(modifier, attr, slot)
             after    == IF hit
                         THEN apply_item_modifier(modifier.operation, modifier.amount,
                                                  base, acc.modified)
                         ELSE acc.modified
             entry    == [source |-> "item", slot |-> slot, effect |-> 0,
                          predicate |-> modifier.slot,
                          attribute |-> modifier.type, operation |-> modifier.operation,
                          raw |-> modifier.amount, amplifier |-> 0,
                          amount |-> modifier.amount, applied |-> hit,
                          before |-> acc.modified, after |-> after]
         IN  item_modifiers_loop(item_modifiers, k + 1, slot, attr, base,
                                 [modified |-> after, trace |-> Append(acc.trace, entry)])

\* `for modifier in status_effect.attribute_modifiers`, from the k-th on.
RECURSIVE effect_modifiers_loop(_, _, _, _, _, _)
effect_modifiers_loop(status_effect, amplifier, k, attr, base, acc) ==
    IF k > Len(attribute_modifiers(status_effect)) THEN acc
    ELSE LET modifier == attribute_modifiers(status_effect)[k]
             hit      == effect_modifier_applies(modifier, attr)
             amount   == effect_amount(modifier.base_value, amplifier)
             after    == IF hit
                         THEN apply_effect_modifier(modifier.operation, amount, base,
                                                    acc.modified)
                         ELSE acc.modified
             entry    == [source |-> "effect", slot |-> -1, effect |-> status_effect,
                          predicate |-> "Any",
                          attribute |-> modifier.attribute, operation |-> modifier.operation,
                          raw |-> modifier.base_value, amplifier |-> amplifier,
                          amount |-> amount, applied |-> hit,
                          before |-> acc.modified, after |-> after]
         IN  effect_modifiers_loop(status_effect, amplifier, k + 1, attr, base,
                                   [modified |-> after, trace |-> Append(acc.trace, entry)])

\* `for (status_effect, effect) in effects.iter()`, from the j-th key of the
\* map's iteration order on.
RECURSIVE effects_loop(_, _, _, _, _, _)
effects_loop(order, map, j, attr, base, acc) ==
    IF j > Len(order) THEN acc
    ELSE effects_loop(order, map, j + 1, attr, base,
                      effect_modifiers_loop(order[j], map[order[j]], 1, attr, base, acc))

\* get_modified that resolves an attribute missing from the store from the
\* registry's fallback value.
get_modified_with_fallback(t, attr) ==
    /\ built
    /\ pc[t] = "idle"
    /\ UNCHANGED <<construction, physics>>
    /\ call' = [call EXCEPT ![t] = [op |-> "get_modified", attr |-> attr, value |-> <<>>]]
    /\ ncalls' = [ncalls EXCEPT ![t] = @ + 1]
    /\ trace' = [trace EXCEPT ![t] = <<>>]
    /\ LET base == IF attr \in DOMAIN values
                   THEN values[attr].current_base_value
                   ELSE get_fallback(attr)
       IN  frame' = [frame EXCEPT ![t] =
                        [attr |-> attr, base |-> base, modified |-> base,
                         equipment_data |-> <<>>, i |-> 0]]
    /\ pc' = [pc EXCEPT ![t] = "lock_equipment"]
    /\ UNCHANGED <<ret, values, world, locks, set_values, last_store, resolved>>

\* get_modified up to its first await: the lookup of the attribute and the
\* load of its base value.
get_modified(t, attr) ==
    /\ built
    /\ pc[t] = "idle"
    /\ UNCHANGED <<construction, physics>>
    /\ call' = [call EXCEPT ![t] = [op |-> "get_modified", attr |-> attr, value |-> <<>>]]
    /\ ncalls' = [ncalls EXCEPT ![t] = @ + 1]
    /\ trace' = [trace EXCEPT ![t] = <<>>]
    /\ IF attr \in DOMAIN values
       THEN /\ frame' = [frame EXCEPT ![t] =
                            [attr |-> attr,
                             base |-> values[attr].current_base_value,
                             modified |-> values[attr].current_base_value,
                             equipment_data |-> <<>>, i |-> 0]]
            /\ pc' = [pc EXCEPT ![t] = "lock_equipment"]
            /\ UNCHANGED ret
       ELSE /\ ret' = [ret EXCEPT ![t] = AttributeNoteFoundError]
            /\ UNCHANGED <<pc, frame>>
    /\ UNCHANGED <<values, world, locks, set_values, last_store, resolved>>

\* equipment.lock().await
lock_equipment(t) ==
    /\ pc[t] = "lock_equipment"
    /\ UNCHANGED <<construction, physics>>
    /\ equipment_lock = "free"
    /\ equipment_lock' = t
    /\ pc' = [pc EXCEPT ![t] = "equipment_data"]
    /\ UNCHANGED <<values, world, stack_lock, effects_lock, call, ncalls, frame, ret,
                   trace, set_values, last_store, resolved>>

\* The owner of the equipment Mutex after the `let equipment_data = { .. };`
\* statement, had the guard been bound to a local that lives to the end of
\* the item-modifier block.
equipment_guard_kept(t) == t

\* The owner of the equipment Mutex after the `let equipment_data = { .. };`
\* statement: the guard is a temporary of that statement.
equipment_guard_dropped(t) == "free"

\* The owner of a stack's Mutex after a turn of `for (slot, stack_lock) in
\* equipment_data`, had the guard outlived the turn.
stack_guard_kept(t) == t

\* The owner of a stack's Mutex after a turn of `for (slot, stack_lock) in
\* equipment_data`: `stack` is a local of the loop body.
stack_guard_dropped(t) == "free"

\* `base`, had it been loaded again from the cell at each use.
loaded_base_reread(f, vals) == vals[f.attr].current_base_value

\* `base`: the local that holds the value loaded when the call began.
loaded_base(f, vals) == f.base

\* The (slot, stack) pairs are cloned, the guard is dropped, and the
\* main_hand argument is pushed with slot 0.
clone_equipment_data(t) ==
    /\ pc[t] = "equipment_data"
    /\ UNCHANGED <<construction, physics>>
    /\ equipment_lock = t
    /\ LET equipment_data ==
               equipment_iter(equipment, 0)
               \o (IF main_hand # <<>> THEN <<<<0, main_hand[1]>>>> ELSE <<>>)
       IN  /\ frame' = [frame EXCEPT ![t].equipment_data = equipment_data, ![t].i = 1]
           /\ pc' = [pc EXCEPT ![t] =
                        IF equipment_data = <<>> THEN "lock_effects" ELSE "lock_stack"]
    /\ equipment_lock' = equipment_guard_dropped(t)
    /\ UNCHANGED <<values, world, stack_lock, effects_lock, call, ncalls, ret, trace,
                   set_values, last_store, resolved>>

\* stack_lock.lock().await for the i-th pair of equipment_data
lock_stack(t) ==
    /\ pc[t] = "lock_stack"
    /\ UNCHANGED <<construction, physics>>
    /\ LET stack_handle == frame[t].equipment_data[frame[t].i][2]
       IN  /\ stack_lock[stack_handle] = "free"
           /\ stack_lock' = [stack_lock EXCEPT ![stack_handle] = t]
    /\ pc' = [pc EXCEPT ![t] = "item_modifiers"]
    /\ UNCHANGED <<values, world, equipment_lock, effects_lock, call, ncalls, frame, ret,
                   trace, set_values, last_store, resolved>>

\* The body of `for (slot, stack_lock) in equipment_data` under the stack's
\* guard: the stack's modifiers are applied and the guard is dropped.
item_modifiers(t) ==
    /\ pc[t] = "item_modifiers"
    /\ UNCHANGED <<construction, physics>>
    /\ \E f \in {frame[t]} :
       \E slot \in {f.equipment_data[f.i][1]} :
       \E stack_handle \in {f.equipment_data[f.i][2]} :
       \E component \in {stacks[stack_handle]} :
       \E acc \in {IF component = <<>>
                   THEN [modified |-> f.modified, trace |-> trace[t]]
                   ELSE item_modifiers_loop(component[1], 1, slot, f.attr,
                            loaded_base(f, values),
                            [modified |-> f.modified, trace |-> trace[t]])} :
           /\ stack_lock[stack_handle] = t
           /\ stack_lock' = [stack_lock EXCEPT ![stack_handle] = stack_guard_dropped(t)]
           /\ frame' = [frame EXCEPT ![t].modified = acc.modified, ![t].i = f.i + 1]
           /\ trace' = [trace EXCEPT ![t] = acc.trace]
           /\ pc' = [pc EXCEPT ![t] =
                        IF f.i = Len(f.equipment_data) THEN "lock_effects" ELSE "lock_stack"]
    /\ UNCHANGED <<values, world, equipment_lock, effects_lock, call, ncalls, ret,
                   set_values, last_store, resolved>>

\* effects.lock().await
lock_effects(t) ==
    /\ pc[t] = "lock_effects"
    /\ UNCHANGED <<construction, physics>>
    /\ effects_lock = "free"
    /\ effects_lock' = t
    /\ pc' = [pc EXCEPT ![t] = "effect_modifiers"]
    /\ UNCHANGED <<values, world, equipment_lock, stack_lock, call, ncalls, frame, ret,
                   trace, set_values, last_store, resolved>>

\* The loop over the effects map under its guard, the drop of the guard and
\* the return of Ok(modified), which ends the life of the call's locals.
effect_modifiers(t) ==
    /\ pc[t] = "effect_modifiers"
    /\ UNCHANGED <<construction, physics>>
    /\ effects_lock = t
    /\ \E f \in {frame[t]} :
       \E acc \in {effects_loop(effects_iter, effects, 1, f.attr, loaded_base(f, values),
                                [modified |-> f.modified, trace |-> trace[t]])} :
           /\ frame' = [frame EXCEPT ![t] = NoFrame]
           /\ trace' = [trace EXCEPT ![t] = acc.trace]
           /\ ret' = [ret EXCEPT ![t] = Ok(acc.modified)]
           /\ resolved' = [resolved EXCEPT ![t] =
                              Append(@, [attr |-> f.attr, base |-> f.base,
                                         base_at_return |->
                                             values[f.attr].current_base_value,
                                         equipment |-> equipment, stacks |-> stacks,
                                         main_hand |-> main_hand, effects |-> effects,
                                         value |-> acc.modified])]
    /\ effects_lock' = "free"
    /\ pc' = [pc EXCEPT ![t] = "idle"]
    /\ UNCHANGED <<values, world, equipment_lock, stack_lock, call, ncalls, set_values,
                   last_store>>

\* The steps of a get_modified call after its first.
get_modified_step(t) ==
    \/ lock_equipment(t)
    \/ clone_equipment_data(t)
    \/ lock_stack(t)
    \/ item_modifiers(t)
    \/ lock_effects(t)
    \/ effect_modifiers(t)

\* ----------------------------------------------------------- input states

\* The builder chains entity kinds use: explicit defaults, registry
\* fallbacks, and an attribute added a second time by a more specific kind.
BuilderInputs ==
    {add_with_fallback_value(add(new, "ARMOR", F64(10, 1)), "ATTACK_DAMAGE"),
     add(add_with_fallback_value(new, "ARMOR"), "ARMOR", F64(4, 1))}

RECURSIVE Permutations1(_)
Permutations1(S) ==
    IF S = {} THEN {<<>>}
    ELSE UNION {{<<x>> \o p : p \in Permutations1(S \ {x})} : x \in S}

HandleOrder == <<"s1", "s2">>

\* The equipment that holds a stack in each slot of S: the k-th lowest slot
\* holds the k-th handle.
EquipmentOf(S) == [a \in S |-> HandleOrder[Cardinality({b \in S : b <= a})]]

Range(f) == {f[x] : x \in DOMAIN f}

\* The entity's equipment, main hand and effects after any history of
\* equipping and effect changes, with at most MaxSources modifier sources.
\* Handles are used in order; a handle not in use holds an item without the
\* component. The main hand may be a stack of its own or one that is equipped.
WorldInit ==
    \E S \in SUBSET EquipmentSlot, E \in SUBSET StatusEffect :
      \E mh \in {<<>>} \cup {<<h>> : h \in StackHandles} :
        LET n    == Cardinality(S)
            used == Range(EquipmentOf(S)) \cup Range(mh)
        IN  /\ n <= Len(HandleOrder)
            /\ n + Len(mh) + Cardinality(E) <= MaxSources
            /\ mh # <<>> =>
                 \/ mh[1] \in Range(EquipmentOf(S))
                 \/ n < Len(HandleOrder) /\ mh[1] = HandleOrder[n + 1]
            /\ equipment = EquipmentOf(S)
            /\ main_hand = mh
            /\ stacks \in [StackHandles -> ItemComponents]
            /\ \A h \in StackHandles \ used : stacks[h] = <<>>
            /\ effects \in [E -> 0 .. MaxAmplifier]
            /\ effects_iter \in Permutations1(E)

\* The entity's motion cells and the world around it in the specifications
\* that do not move the entity.
PhysicsInit ==
    /\ entity = <<>>
    /\ level = <<>>
    /\ events = <<>>

ThreadsInit ==
    /\ equipment_lock = "free"
    /\ stack_lock = [h \in StackHandles |-> "free"]
    /\ effects_lock = "free"
    /\ pc = [t \in Threads |-> "idle"]
    /\ call = [t \in Threads |-> [op |-> "", attr |-> "", value |-> <<>>]]
    /\ ncalls = [t \in Threads |-> 0]
    /\ frame = [t \in Threads |-> NoFrame]
    /\ ret = [t \in Threads |-> Ok(<<>>)]
    /\ trace = [t \in Threads |-> <<>>]
    /\ set_values = [a \in DOMAIN values |-> {}]
    /\ last_store = [a \in DOMAIN values |-> [op |-> "build", value |-> values[a].default]]
    /\ resolved = [t \in Threads |-> <<>>]

\* ------------------------------------------------- resolver specification
\* One caller resolves one attribute over each input state.

Init ==
    /\ \E b \in BuilderInputs : builder = b /\ values = build(b)
    /\ adds = <<>>
    /\ built = TRUE
    /\ PhysicsInit
    /\ WorldInit
    /\ ThreadsInit

Next ==
    \/ ncalls["t1"] = 0 /\ \E attr \in Attribute : get_modified("t1", attr)
    \/ get_modified_step("t1")

Spec == Init /\ [][Next]_vars

\* ----------------------------------------------- status-effect changes
\* The entity's effect-apply and effect-expire logic, which owns the map
\* get_modified reads.

\* An effect is applied: effects.lock().await.insert(status_effect, effect).
\* The insert of a new key may grow and rehash the table, after which the map
\* iterates its keys in another order; a key already present keeps its place.
add_effect(t, status_effect, amplifier) ==
    /\ pc[t] = "idle"
    /\ UNCHANGED <<construction, physics>>
    /\ effects_lock = "free"
    /\ call' = [call EXCEPT ![t] =
                   [op |-> "add_effect", attr |-> "", value |-> <<status_effect, amplifier>>]]
    /\ ncalls' = [ncalls EXCEPT ![t] = @ + 1]
    /\ effects' = [e \in (DOMAIN effects) \cup {status_effect} |->
                      IF e = status_effect THEN amplifier ELSE effects[e]]
    /\ effects_iter' \in
           IF status_effect \in DOMAIN effects THEN {effects_iter}
           ELSE Permutations1((DOMAIN effects) \cup {status_effect})
    /\ UNCHANGED <<values, equipment, stacks, main_hand, locks, pc, frame, ret, trace,
                   set_values, last_store, resolved>>

\* An effect expires: effects.lock().await.remove(status_effect). The
\* remaining keys keep their places.
remove_effect(t, status_effect) ==
    /\ pc[t] = "idle"
    /\ UNCHANGED <<construction, physics>>
    /\ effects_lock = "free"
    /\ status_effect \in DOMAIN effects
    /\ call' = [call EXCEPT ![t] =
                   [op |-> "remove_effect", attr |-> "", value |-> <<status_effect>>]]
    /\ ncalls' = [ncalls EXCEPT ![t] = @ + 1]
    /\ effects' = [e \in (DOMAIN effects) \ {status_effect} |-> effects[e]]
    /\ effects_iter' = SelectSeq(effects_iter, LAMBDA e : e # status_effect)
    /\ UNCHANGED <<values, equipment, stacks, main_hand, locks, pc, frame, ret, trace,
                   set_values, last_store, resolved>>

\* ---------------------------------------- effect-history specification
\* One caller resolves attributes between changes of the entity's effects;
\* the entity wears one stack, in the chest slot.

\* Calls the caller makes in a behaviour of SpecEffects.
MaxEffectCalls == 4

InitEffects ==
    /\ builder = add_with_fallback_value(add(new, "ARMOR", F64(10, 1)), "ATTACK_DAMAGE")
    /\ values = build(builder)
    /\ adds = <<>>
    /\ built = TRUE
    /\ PhysicsInit
    /\ equipment = EquipmentOf({4})
    /\ stacks = [h \in StackHandles |-> IF h = "s1" THEN <<MixedModifiers>> ELSE <<>>]
    /\ main_hand = <<>>
    /\ \E E \in SUBSET StatusEffect :
          /\ Cardinality(E) <= MaxSources
          /\ effects \in [E -> 0 .. MaxAmplifier]
          /\ effects_iter \in Permutations1(E)
    /\ ThreadsInit

NextEffects ==
    \/ ncalls["t1"] < MaxEffectCalls /\ \E attr \in Attribute : get_modified("t1", attr)
    \/ /\ ncalls["t1"] < MaxEffectCalls
       /\ \E e \in StatusEffect, a \in 0 .. MaxAmplifier : add_effect("t1", e, a)
    \/ ncalls["t1"] < MaxEffectCalls /\ \E e \in StatusEffect : remove_effect("t1", e)
    \/ get_modified_step("t1")

SpecEffects == InitEffects /\ [][NextEffects]_vars

\* ------------------------------------------------- store specification
\* Two callers use the store and the resolver of one entity concurrently. The
\* store has one attribute; the entity holds one stack, in the main-hand
\* slot, and has no active effect.

\* Calls each caller makes in a behaviour of SpecStore.
MaxCalls == 2

\* The values callers pass to set_base.
BaseInputs == {F64(0, 1), F64(7, 2)}

InitStore ==
    /\ builder = add(add_with_fallback_value(new, "ARMOR"), "ARMOR", F64(4, 1))
    /\ values = build(builder)
    /\ adds = <<>>
    /\ built = TRUE
    /\ PhysicsInit
    /\ equipment = EquipmentOf({0})
    /\ stacks = [h \in StackHandles |-> IF h = "s1" THEN <<MixedModifiers>> ELSE <<>>]
    /\ main_hand = <<>>
    /\ effects = <<>>
    /\ effects_iter = <<>>
    /\ ThreadsInit

NextStore ==
    \E t \in Threads :
        \/ ncalls[t] < MaxCalls /\ \E attr \in Attribute : get_base(t, attr)
        \/ /\ ncalls[t] < MaxCalls
           /\ \E attr \in Attribute, value \in BaseInputs : set_base(t, attr, value)
        \/ ncalls[t] < MaxCalls /\ \E attr \in Attribute : reset_base(t, attr)
        \/ ncalls[t] < MaxCalls /\ \E attr \in Attribute : get_modified(t, attr)
        \/ get_modified_step(t)

SpecStore == InitStore /\ [][NextStore]_vars

\* -------------------------------------------------- lock specification
\* Two callers resolve and write the one attribute of the store while the
\* rest of the entity's code takes and releases the equipment, item-stack
\* and effects locks. The entity holds one stack in the main-hand slot and
\* is given a main_hand override, which is that stack or another one; it has
\* one active effect.

\* Calls each caller makes in a behaviour of SpecLocks.
MaxLockCalls == 1

\* The owner of a lock taken outside get_modified.
Holder == "w"

LockNames == {"equipment", "effects"} \cup StackHandles

Owner(l) ==
    IF l = "equipment" THEN equipment_lock
    ELSE IF l = "effects" THEN effects_lock
    ELSE stack_lock[l]

\* Lock l passes to owner o.
lock_passes(l, o) ==
    /\ equipment_lock' = IF l = "equipment" THEN o ELSE equipment_lock
    /\ stack_lock' = IF l \in StackHandles THEN [stack_lock EXCEPT ![l] = o]
                     ELSE stack_lock
    /\ effects_lock' = IF l = "effects" THEN o ELSE effects_lock

\* Code of the entity other than get_modified locks l: `l.lock().await`.
holder_lock(l) ==
    /\ Owner(l) = "free"
    /\ lock_passes(l, Holder)
    /\ UNCHANGED <<values, world, pc, call, ncalls, frame, ret, trace, set_values,
                   last_store, resolved, construction, physics>>

\* That code drops its guard of l.
holder_unlock(l) ==
    /\ Owner(l) = Holder
    /\ lock_passes(l, "free")
    /\ UNCHANGED <<values, world, pc, call, ncalls, frame, ret, trace, set_values,
                   last_store, resolved, construction, physics>>

InitLocks ==
    /\ builder = add(new, "ARMOR", F64(4, 1))
    /\ values = build(builder)
    /\ adds = <<>>
    /\ built = TRUE
    /\ PhysicsInit
    /\ equipment = EquipmentOf({0})
    /\ stacks = [h \in StackHandles |-> <<MixedModifiers>>]
    /\ main_hand \in {<<h>> : h \in StackHandles}
    /\ effects = [e \in {3} |-> 0]
    /\ effects_iter = <<3>>
    /\ ThreadsInit

NextLocks ==
    \/ \E t \in Threads : ncalls[t] < MaxLockCalls /\ get_modified(t, "ARMOR")
    \/ \E t \in Threads :
          ncalls[t] < MaxLockCalls /\ \E value \in BaseInputs : set_base(t, "ARMOR", value)
    \/ \E t \in Threads : ncalls[t] < MaxLockCalls /\ reset_base(t, "ARMOR")
    \/ \E t \in Threads : get_modified_step(t)
    \/ \E l \in LockNames : holder_lock(l)
    \/ \E l \in LockNames : holder_unlock(l)

SpecLocks == InitLocks /\ [][NextLocks]_vars

\* The positions of a caller inside get_modified.
Positions ==
    {"idle", "lock_equipment", "equipment_data", "lock_stack", "item_modifiers",
     "lock_effects", "effect_modifiers"}

\* t is given the lock it waits for.
takes_lock(t) == lock_equipment(t) \/ lock_stack(t) \/ lock_effects(t)

\* t, which holds a guard, runs on to the point where it has dropped it: the
\* step clone_equipment_data, item_modifiers or effect_modifiers, seen by
\* what it does to t's position.
drops_guard(t) ==
    /\ pc[t] \in {"equipment_data", "item_modifiers", "effect_modifiers"}
    /\ \E p \in Positions \ {pc[t]} : pc' = [pc EXCEPT ![t] = p]

\* tokio's Mutex hands the lock to its waiters in the order they asked, so a
\* caller that waits for a lock that is free again and again is given it; the
\* executor runs a task that can run, so a caller that holds a guard reaches
\* the point where it drops it (no await lies between); every other holder of
\* a lock drops its guard.
FairLocks ==
    /\ \A t \in Threads : SF_vars(takes_lock(t)) /\ WF_pc(drops_guard(t))
    /\ \A l \in LockNames : WF_vars(holder_unlock(l))

\* Each caller resolves the attribute once.
NextLocksFair ==
    \/ \E t \in Threads : ncalls[t] = 0 /\ get_modified(t, "ARMOR")
    \/ \E t \in Threads : get_modified_step(t)
    \/ \E l \in LockNames : holder_lock(l)
    \/ \E l \in LockNames : holder_unlock(l)

SpecLocksFair == InitLocks /\ [][NextLocksFair]_vars /\ FairLocks

\* ------------------------------------------------ builder specification
\* An entity kind's builder chain is called, build consumes the builder, and
\* one caller then uses the store. The entity holds one stack, in the
\* main-hand slot, and has no active effect.

\* Largest number of add / add_with_fallback_value calls before build.
MaxAdds == 2

\* The explicit default an entity kind passes to add.
DefaultInput == F64(10, 1)

\* The value the caller passes to set_base.
BuildBaseInput == F64(7, 2)

\* A call of AttributeManagerBuilder::add on the builder.
call_add(attr, default_base_value) ==
    /\ ~built
    /\ builder' = add(builder, attr, default_base_value)
    /\ adds' = Append(adds, [op |-> "add", attr |-> attr, value |-> default_base_value])
    /\ UNCHANGED <<values, world, locks, pc, call, ncalls, frame, ret, trace, set_values,
                   last_store, resolved, built, physics>>

\* A call of AttributeManagerBuilder::add_with_fallback_value on the builder.
call_add_with_fallback_value(attr) ==
    /\ ~built
    /\ builder' = add_with_fallback_value(builder, attr)
    /\ adds' = Append(adds, [op |-> "add_with_fallback_value", attr |-> attr,
                             value |-> <<>>])
    /\ UNCHANGED <<values, world, locks, pc, call, ncalls, frame, ret, trace, set_values,
                   last_store, resolved, built, physics>>

\* A call of AttributeManagerBuilder::build, which consumes the builder.
call_build ==
    /\ ~built
    /\ built' = TRUE
    /\ values' = build(builder)
    /\ set_values' = [a \in DOMAIN values' |-> {}]
    /\ last_store' = [a \in DOMAIN values' |->
                         [op |-> "build", value |-> values'[a].default]]
    /\ UNCHANGED <<world, locks, pc, call, ncalls, frame, ret, trace, resolved, builder,
                   adds, physics>>

InitBuild ==
    /\ builder = new
    /\ adds = <<>>
    /\ built = FALSE
    /\ values = <<>>
    /\ equipment = EquipmentOf({0})
    /\ stacks = [h \in StackHandles |-> IF h = "s1" THEN <<MixedModifiers>> ELSE <<>>]
    /\ main_hand = <<>>
    /\ effects = <<>>
    /\ effects_iter = <<>>
    /\ PhysicsInit
    /\ ThreadsInit

NextBuild ==
    \/ Len(builder) < MaxAdds /\ \E attr \in Attribute : call_add(attr, DefaultInput)
    \/ Len(builder) < MaxAdds /\ \E attr \in Attribute : call_add_with_fallback_value(attr)
    \/ call_build
    \/ ncalls["t1"] < MaxCalls /\ \E attr \in Attribute : get_base("t1", attr)
    \/ ncalls["t1"] < MaxCalls /\ \E attr \in Attribute : set_base("t1", attr, BuildBaseInput)
    \/ ncalls["t1"] < MaxCalls /\ \E attr \in Attribute : reset_base("t1", attr)
    \/ ncalls["t1"] < MaxCalls /\ \E attr \in Attribute : get_modified("t1", attr)
    \/ get_modified_step("t1")

SpecBuild == InitBuild /\ [][NextBuild]_vars

\* ================================================================ motion
\* The motion cells of an entity and its collision-adjusted movement
\* (pumpkin/src/entity/mod.rs).

\* ------------------------------------------------- f64 values with rounding
\* In the motion code an f64 is a binary floating-point number: the result of
\* an operation is the exact result rounded to the nearest number with
\* Precision significant bits, ties to the even significand. The exponent
\* range is not bounded.

\* Significant bits of an f64 of the model.
Precision == 4

\* n/d scaled by the power of two 2^-e that brings it into
\* [2^(Precision-1), 2^Precision), with e, for n, d > 0.
RECURSIVE Scaled(_, _, _)
Scaled(n, d, e) ==
    IF n >= d * Pow2(Precision) THEN Scaled(n, 2 * d, e + 1)
    ELSE IF n < d * Pow2(Precision - 1) THEN Scaled(2 * n, d, e - 1)
    ELSE <<n, d, e>>

\* The nearest number with Precision significant bits to n/d, for n, d > 0.
RoundPos(n, d) ==
    LET s == Scaled(n, d, 0)
        m == s[1] \div s[2]
        r == s[1] % s[2]
        k == IF 2 * r > s[2] \/ (2 * r = s[2] /\ m % 2 = 1) THEN m + 1 ELSE m
    IN  IF s[3] >= 0 THEN <<k * Pow2(s[3]), 1>> ELSE F64(k, Pow2(-s[3]))

FNeg(a) == <<-a[1], a[2]>>

\* The f64 nearest to the rational q.
Round(q) ==
    IF q[1] = 0 THEN q
    ELSE IF q[1] < 0 THEN FNeg(RoundPos(-q[1], q[2]))
    ELSE RoundPos(q[1], q[2])

Zero == F64(0, 1)
One == F64(1, 1)

\* a < b and a <= b on f64
FLess(a, b) == FAdd(a, FNeg(b))[1] < 0
FLeq(a, b) == FAdd(a, FNeg(b))[1] <= 0

\* a + b, a - b, a * b and a / b on f64
RAdd(a, b) == Round(FAdd(a, b))
RSub(a, b) == Round(FAdd(a, FNeg(b)))
RMul(a, b) == Round(FMul(a, b))
RDiv(a, b) == Round(FMul(a, IF b[1] < 0 THEN <<-b[2], -b[1]>> ELSE <<b[2], b[1]>>))

\* f64::max and f64::floor (as an integer)
FMax(a, b) == IF FLess(a, b) THEN b ELSE a
Floor(a) == a[1] \div a[2]

\* ---------------------------------------------------- vectors and boxes

\* Axis: the index of a component of a Vector3.
AxisX == 1
AxisY == 2
AxisZ == 3

\* Axis::horizontal()
horizontal == <<AxisX, AxisZ>>

\* Vector3::new
Vector3(x, y, z) == <<x, y, z>>

\* Vector3::length_squared
length_squared(v) == RAdd(RAdd(RMul(v[1], v[1]), RMul(v[2], v[2])), RMul(v[3], v[3]))

\* Vector3 + Vector3 and Vector3 * f64
VAdd(v, w) == [k \in 1 .. 3 |-> RAdd(v[k], w[k])]
VScale(v, f) == [k \in 1 .. 3 |-> RMul(v[k], f)]

\* Vector3::set_axis
set_axis(v, axis, value) == [v EXCEPT ![axis] = value]

\* BoundingBox
BoundingBox(min, max) == [min |-> min, max |-> max]

\* BoundingBox::new_from_pos: the box of an entity at (x, y, z), centred on
\* x and z and standing on y.
new_from_pos(x, y, z, size) ==
    LET f == RDiv(size.width, F64(2, 1))
    IN  BoundingBox(Vector3(RSub(x, f), y, RSub(z, f)),
                    Vector3(RAdd(x, f), RAdd(y, size.height), RAdd(z, f)))

\* BoundingBox::shift
shift(box, delta) == BoundingBox(VAdd(box.min, delta), VAdd(box.max, delta))

\* BoundingBox::stretch: the box extended by the movement.
stretch(box, other) ==
    BoundingBox([k \in 1 .. 3 |-> IF other[k][1] < 0 THEN RAdd(box.min[k], other[k])
                                  ELSE box.min[k]],
                [k \in 1 .. 3 |-> IF other[k][1] > 0 THEN RAdd(box.max[k], other[k])
                                  ELSE box.max[k]])

\* BoundingBox::expand
expand(box, x, y, z) ==
    BoundingBox(Vector3(RSub(box.min[1], x), RSub(box.min[2], y), RSub(box.min[3], z)),
                Vector3(RAdd(box.max[1], x), RAdd(box.max[2], y), RAdd(box.max[3], z)))

\* The boxes overlap on the axes in A.
overlaps(a, b, A) ==
    \A k \in A : FLess(a.min[k], b.max[k]) /\ FLess(b.min[k], a.max[k])

\* BoundingBox::intersects
intersects(a, b) == overlaps(a, b, 1 .. 3)

\* ------------------------------------------------------- world geometry

\* Option<T>
None == <<>>
Some(x) == <<x>>

\* BlockPos
BlockPos(x, y, z) == <<x, y, z>>

\* A collision shape of the block at pos, given by its corners in units of
\* 1/8 block relative to the block's origin.
ShapeAt(pos, lo, hi) ==
    BoundingBox([k \in 1 .. 3 |-> F64(8 * pos[k] + lo[k], 8)],
                [k \in 1 .. 3 |-> F64(8 * pos[k] + hi[k], 8)])

\* A block of the world: its position and its collision shapes.
Block(pos, shapes) == [pos |-> pos, shapes |-> shapes]

\* The collision shape of a full cube, and the two shapes of a stair: the
\* lower half of the cube and the upper half of its x >= 1/2 side.
FullCube(pos) == <<ShapeAt(pos, <<0, 0, 0>>, <<8, 8, 8>>)>>
Stair(pos) ==
    <<ShapeAt(pos, <<0, 0, 0>>, <<8, 4, 8>>), ShapeAt(pos, <<4, 4, 0>>, <<8, 8, 8>>)>>

\* World::get_block_collisions, from the k-th block of the world on: every
\* collision shape that intersects the box, block by block, and for each
\* block that gave a shape the pair (number of shapes so far, position).
\* owners is the position of the block each shape comes from.
RECURSIVE get_block_collisions_from(_, _, _, _)
get_block_collisions_from(blocks, k, bounding_box, acc) ==
    IF k > Len(blocks) THEN acc
    ELSE LET hit        == SelectSeq(blocks[k].shapes,
                                     LAMBDA shape : intersects(shape, bounding_box))
             collisions == acc.collisions \o hit
         IN  get_block_collisions_from(blocks, k + 1, bounding_box,
                 [collisions |-> collisions,
                  block_positions |->
                      IF hit = <<>> THEN acc.block_positions
                      ELSE Append(acc.block_positions, <<Len(collisions), blocks[k].pos>>),
                  owners |-> acc.owners \o [j \in 1 .. Len(hit) |-> blocks[k].pos]])

get_block_collisions(blocks, bounding_box) ==
    get_block_collisions_from(blocks, 1, bounding_box,
        [collisions |-> <<>>, block_positions |-> <<>>, owners |-> <<>>])

\* BoundingBox::calculate_collision_time: the fraction of the movement after
\* which the face of the box that leads on the axis reaches the facing face
\* of other, if that fraction is in [0, max_time) and the box, moved by that
\* fraction of the movement, then overlaps other on the two other axes.
calculate_collision_time(box, other, movement, axis, max_time) ==
    LET movement_on_axis == movement[axis]
        positive         == movement_on_axis[1] > 0
        self_plane       == IF positive THEN box.max[axis] ELSE box.min[axis]
        other_plane      == IF positive THEN other.min[axis] ELSE other.max[axis]
        at(collision_time) ==
            IF FLess(collision_time, Zero) \/ FLeq(max_time, collision_time) THEN None
            ELSE IF overlaps(shift(box, VScale(movement, collision_time)), other,
                             (1 .. 3) \ {axis})
                 THEN Some(collision_time)
                 ELSE None
    IN  IF movement_on_axis = Zero THEN None
        ELSE at(RDiv(RSub(other_plane, self_plane), movement_on_axis))

\* ------------------------------------------- collision-adjusted movement

\* The test of the Y-axis pass that takes the next (end index, position) pair,
\* one shape early.
next_position_due_early(i, collisions_len) == i + 1 = collisions_len

\* The test of the Y-axis pass that takes the next pair, never true.
next_position_due_late(i, collisions_len) == i > collisions_len

\* `if i == collisions_len` of the Y-axis pass: the shapes of the block at
\* `position` have all been visited.
next_position_due(i, collisions_len) == i = collisions_len

\* `positions.next().unwrap()`: the next (end index, position) pair becomes the
\* current one; the walk panics when the list has no next pair.
positions_next(block_positions, st) ==
    IF st.next > Len(block_positions) THEN [st EXCEPT !.panicked = TRUE]
    ELSE [st EXCEPT !.collisions_len = block_positions[st.next][1],
                    !.position = block_positions[st.next][2],
                    !.next = st.next + 1]

\* `for (i, inert_box) in collisions.iter().enumerate()` of the Y-axis pass,
\* from index i (counted from 0) on.
RECURSIVE y_axis_loop(_, _, _, _, _, _)
y_axis_loop(collisions, block_positions, bounding_box, adjusted_movement, i, st) ==
    IF st.panicked \/ i >= Len(collisions) THEN st
    ELSE LET hit(st1, collision_time) ==
                 IF collision_time # None
                 THEN [st1 EXCEPT !.max_time = collision_time[1],
                                  !.supporting_block_pos = Some(st1.position)]
                 ELSE st1
             body(st1) ==
                 IF st1.panicked THEN st1
                 ELSE y_axis_loop(collisions, block_positions, bounding_box,
                                  adjusted_movement, i + 1,
                                  hit(st1, calculate_collision_time(
                                               bounding_box, collisions[i + 1],
                                               adjusted_movement, AxisY, st1.max_time)))
         IN  body(IF next_position_due(i, st.collisions_len)
                  THEN positions_next(block_positions, st)
                  ELSE st)

\* The test of a pass that shortens only for a collision time below 1/2.
shortened_below_half(max_time) == FLess(max_time, F64(1, 2))

\* `if max_time != 1.0`: a shape gave the pass a collision time.
shortened(max_time) == max_time # One

\* The component of the axis scaled by the time that is left after the
\* collision, turned around.
changed_component_reflected(adjusted_movement, axis, max_time) ==
    RMul(adjusted_movement[axis], RSub(max_time, One))

\* `adjusted_movement.get_axis(axis) * max_time`
changed_component(adjusted_movement, axis, max_time) ==
    RMul(adjusted_movement[axis], max_time)

\* The Y-axis pass up to the stores: the walk over the shapes and the change
\* of the Y component.
y_axis_adjustment(collisions, block_positions, bounding_box, adjusted_movement) ==
    LET st0 == positions_next(block_positions,
                   [max_time |-> One, collisions_len |-> 0, position |-> <<>>,
                    next |-> 1, supporting_block_pos |-> None, panicked |-> FALSE])
        after(st) ==
            [panicked |-> st.panicked,
             max_time |-> st.max_time,
             supporting_block_pos |-> st.supporting_block_pos,
             adjusted_movement |->
                 IF shortened(st.max_time)
                 THEN set_axis(adjusted_movement, AxisY,
                               changed_component(adjusted_movement, AxisY,
                                                 st.max_time))
                 ELSE adjusted_movement]
    IN  after(y_axis_loop(collisions, block_positions, bounding_box,
                          adjusted_movement, 0, st0))

\* `for inert_box in &collisions` of a horizontal pass, from the k-th shape on.
RECURSIVE horizontal_loop(_, _, _, _, _, _)
horizontal_loop(collisions, bounding_box, adjusted_movement, axis, k, max_time) ==
    IF k > Len(collisions) THEN max_time
    ELSE LET hit(collision_time) ==
                 IF collision_time # None THEN collision_time[1] ELSE max_time
         IN  horizontal_loop(collisions, bounding_box, adjusted_movement, axis, k + 1,
                             hit(calculate_collision_time(bounding_box, collisions[k],
                                                          adjusted_movement, axis,
                                                          max_time)))

\* `for axis in Axis::horizontal()`, from the n-th horizontal axis on.
RECURSIVE horizontal_adjustment(_, _, _, _, _)
horizontal_adjustment(collisions, bounding_box, movement, n, acc) ==
    IF n > Len(horizontal) THEN acc
    ELSE LET axis == horizontal[n]
             scaled(max_time) ==
                 IF movement[axis] = Zero \/ ~shortened(max_time) THEN acc
                 ELSE [adjusted_movement |->
                           set_axis(acc.adjusted_movement, axis,
                                    changed_component(acc.adjusted_movement, axis,
                                                      max_time)),
                       horizontal_collision |-> TRUE]
         IN  horizontal_adjustment(collisions, bounding_box, movement, n + 1,
                 scaled(horizontal_loop(collisions, bounding_box,
                                        acc.adjusted_movement, axis, 1, One)))

\* adjust_movement_for_collisions that returns a zero movement before it
\* clears the flags.
adjust_movement_for_collisions_return_first(t, movement) ==
    /\ pc[t] = "idle"
    /\ call' = [call EXCEPT ![t] =
                   [op |-> "adjust_movement_for_collisions", attr |-> "",
                    value |-> movement]]
    /\ ncalls' = [ncalls EXCEPT ![t] = @ + 1]
    /\ trace' = [trace EXCEPT ![t] = <<>>]
    /\ IF length_squared(movement) = Zero
       THEN /\ ret' = [ret EXCEPT ![t] = movement]
            /\ UNCHANGED <<pc, frame, entity>>
       ELSE /\ entity' = [entity EXCEPT !.on_ground = FALSE,
                                        !.supporting_block_pos = None,
                                        !.horizontal_collision = FALSE]
            /\ frame' = [frame EXCEPT ![t] =
                            [movement |-> movement,
                             bounding_box |-> entity.bounding_box]]
            /\ pc' = [pc EXCEPT ![t] = "get_block_collisions"]
            /\ UNCHANGED ret
    /\ UNCHANGED <<values, world, locks, set_values, last_store, resolved, construction,
                   level, events>>

\* The stores that open the call, without those of on_ground and
\* supporting_block_pos.
flags_cleared_horizontal_only(en) ==
    [en EXCEPT !.horizontal_collision = FALSE]

\* The stores that open the call: on_ground = false, supporting_block_pos =
\* None, horizontal_collision = false.
flags_cleared(en) ==
    [en EXCEPT !.on_ground = FALSE,
               !.supporting_block_pos = None,
               !.horizontal_collision = FALSE]

\* Entity::adjust_movement_for_collisions up to its await: the three flags
\* are cleared, a movement of length 0 is returned, and otherwise the
\* bounding box is loaded.
adjust_movement_for_collisions(t, movement) ==
    /\ pc[t] = "idle"
    /\ call' = [call EXCEPT ![t] =
                   [op |-> "adjust_movement_for_collisions", attr |-> "",
                    value |-> movement]]
    /\ ncalls' = [ncalls EXCEPT ![t] = @ + 1]
    /\ trace' = [trace EXCEPT ![t] = <<>>]
    /\ entity' = flags_cleared(entity)
    /\ IF length_squared(movement) = Zero
       THEN /\ ret' = [ret EXCEPT ![t] = movement]
            /\ UNCHANGED <<pc, frame>>
       ELSE /\ frame' = [frame EXCEPT ![t] =
                            [movement |-> movement,
                             bounding_box |-> entity.bounding_box]]
            /\ pc' = [pc EXCEPT ![t] = "get_block_collisions"]
            /\ UNCHANGED ret
    /\ UNCHANGED <<values, world, locks, set_values, last_store, resolved, construction,
                   level, events>>

\* The stores that end the Y-axis pass, without that of supporting_block_pos.
y_axis_stores_on_ground_only(en, y) ==
    [en EXCEPT !.on_ground = y.supporting_block_pos # None]

\* The stores that end the Y-axis pass: on_ground and supporting_block_pos.
y_axis_stores(en, y) ==
    [en EXCEPT !.on_ground = y.supporting_block_pos # None,
               !.supporting_block_pos = y.supporting_block_pos]

\* The Y-axis pass, its stores of on_ground and supporting_block_pos when it
\* runs, the horizontal passes, the store of horizontal_collision and the
\* return: what the rest of the call makes of the answer of the world.
adjusted(en, f, answer) ==
    LET y_ran == f.movement[AxisY] # Zero
        returned(y, h) ==
            [panicked |-> FALSE,
             value |-> h.adjusted_movement,
             entity |->
                 [(IF y_ran THEN y_axis_stores(en, y) ELSE en)
                     EXCEPT !.horizontal_collision = h.horizontal_collision],
             y_ran |-> y_ran, y_max_time |-> y.max_time]
        passes(y) ==
            IF y.panicked
            THEN [panicked |-> TRUE, value |-> <<>>, entity |-> en,
                  y_ran |-> TRUE, y_max_time |-> y.max_time]
            ELSE returned(y, horizontal_adjustment(
                                 answer.collisions, f.bounding_box, f.movement, 1,
                                 [adjusted_movement |-> y.adjusted_movement,
                                  horizontal_collision |-> FALSE]))
    IN  IF answer.collisions = <<>>
        THEN [panicked |-> FALSE, value |-> f.movement, entity |-> en,
              y_ran |-> FALSE, y_max_time |-> One]
        ELSE passes(IF y_ran
                    THEN y_axis_adjustment(answer.collisions, answer.block_positions,
                                           f.bounding_box, f.movement)
                    ELSE [panicked |-> FALSE, max_time |-> One,
                          supporting_block_pos |-> None,
                          adjusted_movement |-> f.movement])

\* The box a load of bounding_box after the await would give.
loaded_bounding_box_reloaded(f, en) == en.bounding_box

\* `let bounding_box = self.bounding_box.load();` before the await: the local
\* the rest of the call computes with.
loaded_bounding_box(f, en) == f.bounding_box

\* The await of world.get_block_collisions(bounding_box.stretch(movement))
\* and the rest of the call, which runs without another await.
get_block_collisions_await(t) ==
    /\ pc[t] = "get_block_collisions"
    /\ \E answer \in {get_block_collisions(level.blocks,
                                           stretch(frame[t].bounding_box,
                                                   frame[t].movement))} :
       \E out \in {adjusted(entity,
                            [frame[t] EXCEPT !.bounding_box =
                                                loaded_bounding_box(frame[t], entity)],
                            answer)} :
          /\ events' = Append(events,
                              [op |-> "get_block_collisions",
                               on_ground |-> entity.on_ground,
                               supporting_block_pos |-> entity.supporting_block_pos,
                               horizontal_collision |-> entity.horizontal_collision])
          /\ entity' = out.entity
          /\ trace' = [trace EXCEPT ![t] =
                          [collisions |-> answer.collisions,
                           block_positions |-> answer.block_positions,
                           owners |-> answer.owners,
                           y_ran |-> out.y_ran, y_max_time |-> out.y_max_time]]
          /\ pc' = [pc EXCEPT ![t] = IF out.panicked THEN "panicked" ELSE "idle"]
          /\ ret' = [ret EXCEPT ![t] = out.value]
          /\ resolved' = [resolved EXCEPT ![t] =
                             IF out.panicked THEN @
                             ELSE Append(@, [movement |-> frame[t].movement,
                                             bounding_box |-> frame[t].bounding_box,
                                             bounding_box_at_return |->
                                                 entity.bounding_box,
                                             value |-> out.value])]
    /\ frame' = [frame EXCEPT ![t] = NoFrame]
    /\ UNCHANGED <<values, world, locks, call, ncalls, set_values, last_store,
                   construction, level>>

\* ------------------------------------------------- motion specification
\* One caller asks for the collision adjustment of a movement and then, the
\* entity not having moved, for the adjustment of the movement it was given
\* back.

\* Calls of adjust_movement_for_collisions in a behaviour of SpecMotion.
MaxMoves == 2

\* EntityDimensions of the entity of the model: half a block wide and high.
bounding_box_size == [width |-> F64(1, 2), height |-> F64(1, 2)]

\* The worlds of the model, each the list of its blocks in the order in which
\* get_block_collisions visits them:
\*   a single full-cube floor block;
\*   that floor and a full cube beside and above it (a ledge and a wall);
\*   a stair, a full cube two blocks above it (a ceiling) and a full cube
\*   beside it;
\*   two full cubes beside and above the entity, one of them a block further
\*   along z (a corner).
FloorBlocks == <<Block(BlockPos(0, 0, 0), FullCube(BlockPos(0, 0, 0)))>>
LedgeBlocks ==
    <<Block(BlockPos(0, 0, 0), FullCube(BlockPos(0, 0, 0))),
      Block(BlockPos(1, 1, 0), FullCube(BlockPos(1, 1, 0)))>>
StairBlocks ==
    <<Block(BlockPos(0, 0, 0), Stair(BlockPos(0, 0, 0))),
      Block(BlockPos(0, 2, 0), FullCube(BlockPos(0, 2, 0))),
      Block(BlockPos(1, 0, 0), FullCube(BlockPos(1, 0, 0)))>>
CornerBlocks ==
    <<Block(BlockPos(1, 1, 0), FullCube(BlockPos(1, 1, 0))),
      Block(BlockPos(1, 1, 1), FullCube(BlockPos(1, 1, 1)))>>
BlocksInputs == {FloorBlocks, LedgeBlocks, StairBlocks, CornerBlocks}

\* The positions of the entity and the movements asked for.
PosInputs ==
    {Vector3(F64(x, 4), F64(y, 8), F64(1, 2)) : x \in {1, 2, 6}, y \in {8, 12, 15}}
MovementInputs ==
    {Vector3(x, y, z) : x \in {Zero, F64(2, 1), F64(-1, 2)},
                        y \in {Zero, F64(-1, 2), F64(-1, 1), F64(-13, 8), F64(1, 1)},
                        z \in {Zero, F64(1, 2)}}

\* get_section_cord: the chunk coordinate of a block coordinate (coord >> 4).
get_section_cord(coord) == coord \div 16

\* Entity::new: the motion cells of an entity at pos.
Entity(pos, on_ground, supporting_block_pos, horizontal_collision) ==
    [pos |-> pos,
     block_pos |-> BlockPos(Floor(pos[1]), Floor(pos[2]), Floor(pos[3])),
     chunk_pos |-> <<get_section_cord(Floor(pos[1])), get_section_cord(Floor(pos[3]))>>,
     bounding_box |-> new_from_pos(pos[1], pos[2], pos[3], bounding_box_size),
     on_ground |-> on_ground,
     supporting_block_pos |-> supporting_block_pos,
     horizontal_collision |-> horizontal_collision,
     velocity |-> Vector3(Zero, Zero, Zero),
     fall_distance |-> Zero,
     water_height |-> Zero, touching_water |-> FALSE,
     lava_height |-> Zero, touching_lava |-> FALSE,
     no_clip |-> FALSE,
     movement_multiplier |-> Vector3(Zero, Zero, Zero)]

\* The attribute store and the resolver's inputs in the specifications that
\* do not use them.
AttributesInit ==
    /\ builder = new
    /\ adds = <<>>
    /\ built = TRUE
    /\ values = build(builder)
    /\ equipment = <<>>
    /\ stacks = [h \in StackHandles |-> <<>>]
    /\ main_hand = <<>>
    /\ effects = <<>>
    /\ effects_iter = <<>>

\* The entity is outside every collision shape; its flags are those a
\* previous tick left.
InitMotion ==
    /\ AttributesInit
    /\ ThreadsInit
    /\ \E blocks \in BlocksInputs : level = [blocks |-> blocks, fluids |-> <<>>]
    /\ \E pos \in PosInputs, landed \in BOOLEAN :
          entity = Entity(pos, landed,
                          IF landed THEN Some(BlockPos(0, 0, 0)) ELSE None, landed)
    /\ \A k \in DOMAIN level.blocks :
          \A j \in DOMAIN level.blocks[k].shapes :
              ~intersects(level.blocks[k].shapes[j], entity.bounding_box)
    /\ events = <<>>

NextMotion ==
    \/ /\ ncalls["t1"] = 0
       /\ \E movement \in MovementInputs : adjust_movement_for_collisions("t1", movement)
    \/ /\ ncalls["t1"] > 0 /\ ncalls["t1"] < MaxMoves
       /\ adjust_movement_for_collisions("t1", ret["t1"])
    \/ get_block_collisions_await("t1")

SpecMotion == InitMotion /\ [][NextMotion]_vars

\* ============================================================ fluid scan
\* Entity::update_fluid_state (pumpkin/src/entity/mod.rs).

\* The fluids of the registry in the order of their identifiers: Fluid::id
\* is the place in this list, counted from 0.
Fluid == <<"EMPTY", "FLOWING_WATER", "WATER", "FLOWING_LAVA", "LAVA">>
FluidId(name) == (CHOOSE k \in DOMAIN Fluid : Fluid[k] = name) - 1

\* The fluid and fluid state of a cell: identifier, height of the fluid in
\* the cell, and the velocity of its flow.
FluidState(name, height, velocity) ==
    [id |-> FluidId(name), height |-> height, velocity |-> velocity]
EmptyFluid == FluidState("EMPTY", Zero, Vector3(Zero, Zero, Zero))

\* World::get_fluid_and_fluid_state
get_fluid_and_fluid_state(fluids, pos) ==
    IF pos \in DOMAIN fluids THEN fluids[pos] ELSE EmptyFluid

\* World::get_fluid_velocity
get_fluid_velocity(fluids, pos) == get_fluid_and_fluid_state(fluids, pos).velocity

\* The index of a fluid's category with only Fluid::LAVA counted as lava.
fluid_index_still_lava_only(id) == IF id = FluidId("LAVA") THEN 2 ELSE 1

\* usize::from(fluid.id == FLOWING_LAVA.id || fluid.id == LAVA.id), counted
\* from 1: 1 is water, 2 is lava.
fluid_index(id) ==
    IF id = FluidId("FLOWING_LAVA") \/ id = FluidId("LAVA") THEN 2 ELSE 1

\* BoundingBox::min_block_pos and max_block_pos
min_block_pos(box) == BlockPos(Floor(box.min[1]), Floor(box.min[2]), Floor(box.min[3]))
max_block_pos(box) == BlockPos(Floor(box.max[1]), Floor(box.max[2]), Floor(box.max[3]))

\* The cells between min and max in the order of the three nested loops:
\* x outermost, then y, then z.
RECURSIVE cells_from(_, _, _)
cells_from(min, max, pos) ==
    IF pos[1] > max[1] THEN <<>>
    ELSE IF pos[2] > max[2] THEN cells_from(min, max, BlockPos(pos[1] + 1, min[2], min[3]))
    ELSE IF pos[3] > max[3] THEN cells_from(min, max, BlockPos(pos[1], pos[2] + 1, min[3]))
    ELSE <<pos>> \o cells_from(min, max, BlockPos(pos[1], pos[2], pos[3] + 1))

\* fluids.insert(fluid.id, fluid) with the fluids kept in the order in which
\* they were first inserted.
fluids_insert_unsorted(fluids, id) ==
    IF \E k \in DOMAIN fluids : fluids[k] = id THEN fluids ELSE Append(fluids, id)

\* fluids.insert(fluid.id, fluid) on the BTreeMap, given as the list of its
\* keys in ascending order.
fluids_insert(fluids, id) ==
    IF \E k \in DOMAIN fluids : fluids[k] = id THEN fluids
    ELSE SelectSeq(fluids, LAMBDA k : k < id) \o <<id>>
         \o SelectSeq(fluids, LAMBDA k : k > id)

\* Vector3::normalize of a vector along the x axis.
normalize(v) ==
    IF v[1] = Zero THEN v
    ELSE Vector3(IF v[1][1] > 0 THEN One ELSE FNeg(One), Zero, Zero)

FAbs(a) == <<Abs(a[1]), a[2]>>

\* Entity::push_by_fluid for an entity that is not a player: the velocity
\* after the push.
push_by_fluid(velo, speed, push, n) ==
    LET averaged == IF n > 0 THEN VScale(push, RDiv(One, F64(n, 1))) ELSE push
        scaled   == VScale(normalize(averaged), speed)
        slow     == /\ FLess(FAbs(velo[1]), F64(3, 1000))
                    /\ FLess(FAbs(velo[3]), F64(3, 1000))
                    /\ FLess(length_squared(velo), F64(81, 4000000))
        final    == IF slow THEN VScale(normalize(scaled), F64(45, 10000)) ELSE scaled
    IN  IF length_squared(push) # Zero THEN VAdd(velo, final) ELSE velo

\* An f64 literal of the source.
Literal(n, d) == Round(F64(n, d))

\* One turn of the innermost loop of update_fluid_state on the cell pos: the
\* locals after it.
scan_cell(f, fluids, pos) ==
    LET state           == get_fluid_and_fluid_state(fluids, pos)
        marginal_height == RSub(RAdd(state.height, F64(pos[2], 1)), f.bounding_box.min[2])
        i               == fluid_index(state.id)
        highest         == FMax(f.fluid_height[i], marginal_height)
        flow            == get_fluid_velocity(fluids, pos)
        fluid_velo      == IF FLess(highest, Literal(4, 10))
                           THEN VScale(flow, highest) ELSE flow
        found           == [f EXCEPT !.fluid_height[i] = highest,
                                     !.in_fluid[i] = TRUE,
                                     !.fluids = fluids_insert(@, state.id)]
    IN  IF state.id = FluidId("EMPTY") \/ FLess(marginal_height, Zero) THEN f
        ELSE IF ~f.is_pushed THEN found
        ELSE [found EXCEPT !.fluid_push[i] = VAdd(@, fluid_velo),
                           !.fluid_n[i] = @ + 1]

\* The speed of the push of lava in the dimension.
lava_speed(dimension_type) ==
    IF dimension_type = "TheNether" THEN Literal(7, 1000) ELSE Literal(7, 3000)

\* The end of update_fluid_state, after the callbacks: the two pushes, and
\* the stores of the fall distance, the heights and the flags.
fluid_stores(en, f, dimension_type) ==
    LET water  == push_by_fluid(en.velocity, Literal(14, 1000), f.fluid_push[1], f.fluid_n[1])
        lava   == push_by_fluid(water, lava_speed(dimension_type),
                                f.fluid_push[2], f.fluid_n[2])
        wet    == IF f.in_fluid[1] /\ f.living THEN Zero ELSE en.fall_distance
        halved == RDiv(wet, F64(2, 1))
    IN  [en EXCEPT !.velocity = lava,
                   !.fall_distance = IF f.in_fluid[2] /\ f.living /\ halved # Zero
                                     THEN halved ELSE wet,
                   !.water_height = f.fluid_height[1],
                   !.touching_water = f.in_fluid[1],
                   !.lava_height = f.fluid_height[2],
                   !.touching_lava = f.in_fluid[2]]

\* Entity::update_fluid_state up to its first await: the locals, the shrunk
\* box and the cells it will visit. is_pushed is caller.is_pushed_by_fluids()
\* and living says whether caller.get_living_entity() is Some.
update_fluid_state(t, is_pushed, living) ==
    /\ pc[t] = "idle"
    /\ call' = [call EXCEPT ![t] = [op |-> "update_fluid_state", attr |-> "",
                                    value |-> <<>>]]
    /\ ncalls' = [ncalls EXCEPT ![t] = @ + 1]
    /\ LET bounding_box == expand(entity.bounding_box, Literal(-1, 1000),
                                  Literal(-1, 1000), Literal(-1, 1000))
           min          == min_block_pos(bounding_box)
           max          == max_block_pos(bounding_box)
       IN  frame' = [frame EXCEPT ![t] =
                        [is_pushed |-> is_pushed, living |-> living,
                         fluids |-> <<>>,
                         fluid_push |-> <<Vector3(Zero, Zero, Zero),
                                          Vector3(Zero, Zero, Zero)>>,
                         fluid_n |-> <<0, 0>>,
                         in_fluid |-> <<FALSE, FALSE>>,
                         fluid_height |-> <<Zero, Zero>>,
                         bounding_box |-> bounding_box,
                         cells |-> cells_from(min, max, min),
                         i |-> 1]]
    /\ pc' = [pc EXCEPT ![t] = "get_fluid_and_fluid_state"]
    /\ UNCHANGED <<values, world, locks, ret, trace, set_values, last_store, resolved,
                   construction, physics>>

\* The await of world.get_fluid_and_fluid_state(&pos) for the next cell and
\* the rest of the turn of the loop.
get_fluid_and_fluid_state_await(t) ==
    /\ pc[t] = "get_fluid_and_fluid_state"
    /\ LET f   == frame[t]
           pos == f.cells[f.i]
       IN  /\ events' = Append(events, [op |-> "get_fluid_and_fluid_state", pos |-> pos])
           /\ frame' = [frame EXCEPT ![t] =
                           [scan_cell(f, level.fluids, pos) EXCEPT !.i = f.i + 1]]
           /\ pc' = [pc EXCEPT ![t] = IF f.i = Len(f.cells)
                                      THEN "on_entity_collision_fluid" ELSE @]
    /\ UNCHANGED <<values, world, locks, call, ncalls, ret, trace, set_values,
                   last_store, resolved, construction, entity, level>>

\* The await of on_entity_collision_fluid(&fluid, caller) for the next fluid
\* of the map.
on_entity_collision_fluid_await(t) ==
    /\ pc[t] = "on_entity_collision_fluid"
    /\ frame[t].fluids # <<>>
    /\ events' = Append(events, [op |-> "on_entity_collision_fluid",
                                 id |-> Head(frame[t].fluids)])
    /\ frame' = [frame EXCEPT ![t].fluids = Tail(@)]
    /\ UNCHANGED <<values, world, locks, pc, call, ncalls, ret, trace, set_values,
                   last_store, resolved, construction, entity, level>>

\* The rest of update_fluid_state once the map is exhausted.
update_fluid_state_return(t) ==
    /\ pc[t] = "on_entity_collision_fluid"
    /\ frame[t].fluids = <<>>
    /\ entity' = fluid_stores(entity, frame[t], level.dimension_type)
    /\ trace' = [trace EXCEPT ![t] =
                    [cells |-> frame[t].cells,
                     bounding_box |-> frame[t].bounding_box,
                     before |-> [water_height |-> entity.water_height,
                                 touching_water |-> entity.touching_water,
                                 lava_height |-> entity.lava_height,
                                 touching_lava |-> entity.touching_lava]]]
    /\ frame' = [frame EXCEPT ![t] = NoFrame]
    /\ pc' = [pc EXCEPT ![t] = "idle"]
    /\ UNCHANGED <<values, world, locks, call, ncalls, ret, set_values, last_store,
                   resolved, construction, level, events>>

\* ------------------------------------------------- fluid scan specification

\* The fluid states a cell can hold: still water and lava, and flowing water
\* and lava that run along x.
FluidInputs ==
    {EmptyFluid,
     FluidState("WATER", F64(7, 8), Vector3(Zero, Zero, Zero)),
     FluidState("FLOWING_WATER", F64(1, 2), Vector3(One, Zero, Zero)),
     FluidState("LAVA", F64(7, 8), Vector3(Zero, Zero, Zero)),
     FluidState("FLOWING_LAVA", F64(1, 4), Vector3(FNeg(One), Zero, Zero))}

\* The cells around the entity.
FluidCells == {BlockPos(x, y, 0) : x \in 0 .. 1, y \in 0 .. 1}

DimensionInputs == {"Overworld", "TheNether"}

\* What an earlier tick left in the cells the scan stores to.
EarlierTick(en) ==
    [en EXCEPT !.velocity = Vector3(F64(1, 2), Zero, Zero),
               !.fall_distance = F64(3, 1),
               !.water_height = F64(1, 2), !.touching_water = TRUE,
               !.lava_height = F64(1, 4), !.touching_lava = TRUE]

\* The entity's box reaches into the four cells; in the Nether its flags,
\* heights, fall distance and velocity are those an earlier tick left.
InitFluid ==
    /\ AttributesInit
    /\ ThreadsInit
    /\ \E fluids \in [FluidCells -> FluidInputs], d \in DimensionInputs :
          /\ level = [blocks |-> <<>>, fluids |-> fluids, dimension_type |-> d]
          /\ LET en == Entity(Vector3(F64(1, 1), F64(3, 4), F64(1, 2)),
                              FALSE, None, FALSE)
             IN  entity = IF d = "TheNether" THEN EarlierTick(en) ELSE en
    /\ events = <<>>

NextFluid ==
    \/ /\ ncalls["t1"] = 0
       /\ \E is_pushed \in BOOLEAN, living \in BOOLEAN :
             update_fluid_state("t1", is_pushed, living)
    \/ get_fluid_and_fluid_state_await("t1")
    \/ on_entity_collision_fluid_await("t1")
    \/ update_fluid_state_return("t1")

SpecFluid == InitFluid /\ [][NextFluid]_vars

\* ============================================================ block scan
\* Entity::tick_block_collisions (pumpkin/src/entity/mod.rs): the cells the
\* shrunk box overlaps are visited in x, y, z order; each visit awaits the
\* block state of the cell and, when the outline of the block meets the box,
\* the collision callback of the block.

\* A block state: whether it is solid, and its outline and collision shapes,
\* each given by its corners in units of 1/8 block.
BlockState(is_solid, outline_shapes, collision_shapes) ==
    [is_solid |-> is_solid, outline_shapes |-> outline_shapes,
     collision_shapes |-> collision_shapes]

CubeShapes == << <<(<<0, 0, 0>>), (<<8, 8, 8>>)>> >>
StairShapes == << <<(<<0, 0, 0>>), (<<8, 4, 8>>)>>, <<(<<4, 4, 0>>), (<<8, 8, 8>>)>> >>
SlabUnderCeilingShapes ==
    << <<(<<0, 6, 0>>), (<<8, 8, 8>>)>>, <<(<<0, 0, 0>>), (<<8, 4, 8>>)>> >>

\* Air, a full solid cube, a solid stair, a solid block whose upper shape
\* comes first, a block with an outline and no collision shape, and a full
\* cube that is not solid.
Air == BlockState(FALSE, <<>>, <<>>)
BlockStateInputs ==
    {Air,
     BlockState(TRUE, CubeShapes, CubeShapes),
     BlockState(TRUE, StairShapes, StairShapes),
     BlockState(TRUE, SlabUnderCeilingShapes, SlabUnderCeilingShapes),
     BlockState(FALSE, CubeShapes, <<>>),
     BlockState(FALSE, CubeShapes, CubeShapes)}

\* World::get_block_and_state: the state of the block in the cell.
get_block_and_state(states, pos) ==
    IF pos \in DOMAIN states THEN states[pos] ELSE Air

\* The shapes of a block state placed at pos.
shapes_at_pos(shapes, pos) ==
    [k \in DOMAIN shapes |-> ShapeAt(pos, shapes[k][1], shapes[k][2])]

\* The closure handed to check_outline, called for the collision shapes from
\* the k-th on: each call assigns suffocating.
RECURSIVE using_outline_shape(_, _, _, _)
using_outline_shape(collision_shapes, k, eye_level_box, suffocating) ==
    IF k > Len(collision_shapes) THEN suffocating
    ELSE using_outline_shape(collision_shapes, k + 1, eye_level_box,
                             intersects(collision_shapes[k], eye_level_box))

\* World::check_outline: whether an outline shape of the block meets the box;
\* if one does and use_outline_shape is set, the closure is called with every
\* collision shape of the block, in order.
check_outline(bounding_box, pos, state, use_outline_shape, eye_level_box, suffocating) ==
    LET collided ==
            \E k \in DOMAIN state.outline_shapes :
                intersects(shapes_at_pos(state.outline_shapes, pos)[k], bounding_box)
    IN  [collided |-> collided,
         suffocating |->
             IF collided /\ use_outline_shape
             THEN using_outline_shape(shapes_at_pos(state.collision_shapes, pos), 1,
                                      eye_level_box, suffocating)
             ELSE suffocating]

\* Entity::standing_eye_height of the entity type of the model.
standing_eye_height == F64(3, 8)

\* `eye_level_box.min.y += eye_height; eye_level_box.max.y = eye_level_box.min.y`
eye_level(aabb, eye_height) ==
    BoundingBox(set_axis(aabb.min, 2, RAdd(aabb.min[2], eye_height)),
                set_axis(aabb.max, 2, RAdd(aabb.min[2], eye_height)))

\* Entity::tick_block_collisions up to its first await: the box is loaded,
\* shrunk by 0.001, and the eye-level box and the cells are derived from it.
tick_block_collisions(t) ==
    /\ pc[t] = "idle"
    /\ call' = [call EXCEPT ![t] = [op |-> "tick_block_collisions", attr |-> "",
                                    value |-> <<>>]]
    /\ ncalls' = [ncalls EXCEPT ![t] = @ + 1]
    /\ \E aabb \in {expand(entity.bounding_box, Literal(-1, 1000),
                           Literal(-1, 1000), Literal(-1, 1000))} :
          frame' = [frame EXCEPT ![t] =
                       [bounding_box |-> entity.bounding_box,
                        suffocating |-> FALSE,
                        eye_level_box |-> eye_level(aabb, standing_eye_height),
                        cells |-> cells_from(min_block_pos(aabb), max_block_pos(aabb),
                                             min_block_pos(aabb)),
                        i |-> 1,
                        tested |-> <<>>]]
    /\ pc' = [pc EXCEPT ![t] = "get_block_and_state"]
    /\ trace' = [trace EXCEPT ![t] = <<>>]
    /\ UNCHANGED <<values, world, locks, ret, set_values, last_store, resolved,
                   construction, physics>>

\* The end of a turn of the loop with locals f: the next cell, or
\* `suffocating` is returned.
block_scan_continues(t, f) ==
    IF f.i = Len(f.cells)
    THEN /\ ret' = [ret EXCEPT ![t] = f.suffocating]
         /\ trace' = [trace EXCEPT ![t] =
                         [cells |-> f.cells, bounding_box |-> f.bounding_box,
                          eye_level_box |-> f.eye_level_box, tested |-> f.tested]]
         /\ frame' = [frame EXCEPT ![t] = NoFrame]
         /\ pc' = [pc EXCEPT ![t] = "idle"]
    ELSE /\ frame' = [frame EXCEPT ![t] = [f EXCEPT !.i = f.i + 1]]
         /\ pc' = [pc EXCEPT ![t] = "get_block_and_state"]
         /\ UNCHANGED <<ret, trace>>

\* The await of world.get_block_and_state(&pos) for the next cell and
\* check_outline on its answer.
get_block_and_state_await(t) ==
    /\ pc[t] = "get_block_and_state"
    /\ \E f \in {frame[t]} :
       \E pos \in {f.cells[f.i]} :
       \E state \in {get_block_and_state(level.states, pos)} :
       \E use \in {~f.suffocating /\ state.is_solid} :
       \E out \in {check_outline(f.bounding_box, pos, state, use, f.eye_level_box,
                                 f.suffocating)} :
       \E g \in {[f EXCEPT !.suffocating = out.suffocating,
                           !.tested = IF out.collided /\ use
                                      THEN Append(@, [pos |-> pos,
                                                      before |-> f.suffocating,
                                                      is_solid |-> state.is_solid])
                                      ELSE @]} :
          /\ events' = Append(events, [op |-> "get_block_and_state", pos |-> pos])
          /\ IF out.collided
             THEN /\ frame' = [frame EXCEPT ![t] = g]
                  /\ pc' = [pc EXCEPT ![t] = "on_entity_collision"]
                  /\ UNCHANGED <<ret, trace>>
             ELSE block_scan_continues(t, g)
    /\ UNCHANGED <<values, world, locks, call, ncalls, set_values, last_store,
                   resolved, construction, entity, level>>

\* The await of block_registry.on_entity_collision(block, ..., &pos, state, ..).
on_entity_collision_await(t) ==
    /\ pc[t] = "on_entity_collision"
    /\ events' = Append(events, [op |-> "on_entity_collision",
                                 pos |-> frame[t].cells[frame[t].i]])
    /\ block_scan_continues(t, frame[t])
    /\ UNCHANGED <<values, world, locks, call, ncalls, set_values, last_store,
                   resolved, construction, entity, level>>

\* ------------------------------------------------- block scan specification

\* The cells around the entity.
BlockCells == {BlockPos(0, y, 0) : y \in 0 .. 1}

\* Where the entity is: inside the lower cell, or reaching into both.
BlockScanPosInputs ==
    {Vector3(F64(1, 2), F64(y, 8), F64(1, 2)) : y \in {0, 2, 4, 6}}

InitBlocks ==
    /\ AttributesInit
    /\ ThreadsInit
    /\ \E states \in [BlockCells -> BlockStateInputs] :
          level = [blocks |-> <<>>, fluids |-> <<>>, states |-> states]
    /\ \E pos \in BlockScanPosInputs : entity = Entity(pos, FALSE, None, FALSE)
    /\ events = <<>>

NextBlocks ==
    \/ /\ ncalls["t1"] = 0
       /\ tick_block_collisions("t1")
    \/ get_block_and_state_await("t1")
    \/ on_entity_collision_await("t1")

SpecBlocks == InitBlocks /\ [][NextBlocks]_vars

\* ============================================================== position
\* Entity::set_pos and Entity::move_pos (pumpkin/src/entity/mod.rs). pos,
\* bounding_box, block_pos and chunk_pos are separate atomic cells: every
\* load and every store is a step of its own.

\* set_pos(new_position) is called.
set_pos(t, new_position) ==
    /\ pc[t] = "idle"
    /\ call' = [call EXCEPT ![t] = [op |-> "set_pos", attr |-> "",
                                    value |-> new_position]]
    /\ ncalls' = [ncalls EXCEPT ![t] = @ + 1]
    /\ frame' = [frame EXCEPT ![t] = [new_position |-> new_position]]
    /\ pc' = [pc EXCEPT ![t] = "pos_load"]
    /\ UNCHANGED <<values, world, locks, ret, trace, set_values, last_store, resolved,
                   construction, physics>>

\* move_pos(delta): self.pos.load() + delta, and the call of set_pos with it.
move_pos(t, delta) ==
    /\ pc[t] = "idle"
    /\ call' = [call EXCEPT ![t] = [op |-> "move_pos", attr |-> "", value |-> delta]]
    /\ ncalls' = [ncalls EXCEPT ![t] = @ + 1]
    /\ frame' = [frame EXCEPT ![t] = [new_position |-> VAdd(entity.pos, delta)]]
    /\ pc' = [pc EXCEPT ![t] = "pos_load"]
    /\ UNCHANGED <<values, world, locks, ret, trace, set_values, last_store, resolved,
                   construction, physics>>

\* let pos = self.pos.load(); if pos != new_position
pos_load(t) ==
    /\ pc[t] = "pos_load"
    /\ IF entity.pos # frame[t].new_position
       THEN /\ pc' = [pc EXCEPT ![t] = "pos_store"]
            /\ UNCHANGED frame
       ELSE /\ pc' = [pc EXCEPT ![t] = "idle"]
            /\ frame' = [frame EXCEPT ![t] = NoFrame]
    /\ UNCHANGED <<values, world, locks, call, ncalls, ret, trace, set_values,
                   last_store, resolved, construction, physics>>

\* self.pos.store(new_position)
pos_store(t) ==
    /\ pc[t] = "pos_store"
    /\ entity' = [entity EXCEPT !.pos = frame[t].new_position]
    /\ pc' = [pc EXCEPT ![t] = "bounding_box_store"]
    /\ UNCHANGED <<values, world, locks, call, ncalls, frame, ret, trace, set_values,
                   last_store, resolved, construction, level, events>>

\* self.bounding_box.store(BoundingBox::new_from_pos(..)): the entity after.
bounding_box_store_to(en, new_position) ==
    [en EXCEPT !.bounding_box =
        new_from_pos(new_position[1], new_position[2], new_position[3],
                     bounding_box_size)]

bounding_box_store(t) ==
    /\ pc[t] = "bounding_box_store"
    /\ entity' = bounding_box_store_to(entity, frame[t].new_position)
    /\ pc' = [pc EXCEPT ![t] = "block_pos_load"]
    /\ UNCHANGED <<values, world, locks, call, ncalls, frame, ret, trace, set_values,
                   last_store, resolved, construction, level, events>>

\* The floors of the new position.
floor_pos(new_position) ==
    BlockPos(Floor(new_position[1]), Floor(new_position[2]), Floor(new_position[3]))

\* let block_pos = self.block_pos.load(); if a floor differs from it
block_pos_load(t) ==
    /\ pc[t] = "block_pos_load"
    /\ IF floor_pos(frame[t].new_position) # entity.block_pos
       THEN /\ pc' = [pc EXCEPT ![t] = "block_pos_store"]
            /\ UNCHANGED frame
       ELSE /\ pc' = [pc EXCEPT ![t] = "idle"]
            /\ frame' = [frame EXCEPT ![t] = NoFrame]
    /\ UNCHANGED <<values, world, locks, call, ncalls, ret, trace, set_values,
                   last_store, resolved, construction, physics>>

\* self.block_pos.store(BlockPos(new_block_pos))
block_pos_store(t) ==
    /\ pc[t] = "block_pos_store"
    /\ entity' = [entity EXCEPT !.block_pos = floor_pos(frame[t].new_position)]
    /\ pc' = [pc EXCEPT ![t] = "chunk_pos_load"]
    /\ UNCHANGED <<values, world, locks, call, ncalls, frame, ret, trace, set_values,
                   last_store, resolved, construction, level, events>>

\* The chunk of the new position.
section_pos(new_position) ==
    <<get_section_cord(Floor(new_position[1])), get_section_cord(Floor(new_position[3]))>>

\* let chunk_pos = self.chunk_pos.load(); if a section coordinate differs
chunk_pos_load(t) ==
    /\ pc[t] = "chunk_pos_load"
    /\ IF section_pos(frame[t].new_position) # entity.chunk_pos
       THEN /\ pc' = [pc EXCEPT ![t] = "chunk_pos_store"]
            /\ UNCHANGED frame
       ELSE /\ pc' = [pc EXCEPT ![t] = "idle"]
            /\ frame' = [frame EXCEPT ![t] = NoFrame]
    /\ UNCHANGED <<values, world, locks, call, ncalls, ret, trace, set_values,
                   last_store, resolved, construction, physics>>

\* self.chunk_pos.store(..)
chunk_pos_store(t) ==
    /\ pc[t] = "chunk_pos_store"
    /\ entity' = [entity EXCEPT !.chunk_pos = section_pos(frame[t].new_position)]
    /\ pc' = [pc EXCEPT ![t] = "idle"]
    /\ frame' = [frame EXCEPT ![t] = NoFrame]
    /\ UNCHANGED <<values, world, locks, call, ncalls, ret, trace, set_values,
                   last_store, resolved, construction, level, events>>

\* --------------------------------------------------- position specification

\* Calls of set_pos and move_pos per thread.
MaxPosCalls == 1

\* The positions asked for and the deltas moved by.
NewPositionInputs ==
    {Vector3(x, F64(1, 1), F64(1, 2)) : x \in {F64(1, 2), F64(3, 2), F64(16, 1)}}
DeltaInputs == {Vector3(x, Zero, Zero) : x \in {Zero, F64(1, 1), F64(16, 1)}}

InitPos ==
    /\ AttributesInit
    /\ ThreadsInit
    /\ level = [blocks |-> <<>>, fluids |-> <<>>]
    /\ entity = Entity(Vector3(F64(1, 2), F64(1, 1), F64(1, 2)), FALSE, None, FALSE)
    /\ events = <<>>

NextPos ==
    \E t \in Threads :
        \/ /\ ncalls[t] < MaxPosCalls
           /\ \E new_position \in NewPositionInputs : set_pos(t, new_position)
        \/ /\ ncalls[t] < MaxPosCalls
           /\ \E delta \in DeltaInputs : move_pos(t, delta)
        \/ pos_load(t)
        \/ pos_store(t)
        \/ bounding_box_store(t)
        \/ block_pos_load(t)
        \/ block_pos_store(t)
        \/ chunk_pos_load(t)
        \/ chunk_pos_store(t)

SpecPos == InitPos /\ [][NextPos]_vars

\* ================================================================== move
\* Entity::move_entity (pumpkin/src/entity/mod.rs): the movement multiplier
\* is taken, the motion is adjusted for collisions, the entity is moved and
\* its velocity is stored. Each access to a cell and each await is a step.

\* Vector3::multiply
multiply(v, x, y, z) == Vector3(RMul(v[1], x), RMul(v[2], y), RMul(v[3], z))

\* What a load of movement_multiplier would leave in the cell.
multiplier_left_in_place(taken) == taken

\* `self.movement_multiplier.swap(Vector3::default())`: what the swap leaves
\* in the cell.
multiplier_left(taken) == Vector3(Zero, Zero, Zero)

\* `movement_multiplier.length_squared() > 1.0e-7`
multiplier_applies(movement_multiplier) ==
    FLess(Literal(1, 10000000), length_squared(movement_multiplier))

\* The stores of set_pos(new_position), taken together: pos and the
\* bounding box, and block_pos and chunk_pos when their floors change.
set_pos_stores(en, new_position) ==
    IF en.pos = new_position THEN en
    ELSE IF floor_pos(new_position) = en.block_pos
         THEN [bounding_box_store_to(en, new_position) EXCEPT !.pos = new_position]
         ELSE [bounding_box_store_to(en, new_position) EXCEPT
                  !.pos = new_position,
                  !.block_pos = floor_pos(new_position),
                  !.chunk_pos = section_pos(new_position)]

\* The call returns.
move_entity_returns(t) ==
    /\ pc' = [pc EXCEPT ![t] = "idle"]
    /\ frame' = [frame EXCEPT ![t] = NoFrame]

\* move_entity(caller, motion) is called: a player is not moved here; with
\* no_clip set the entity is moved by the motion as it is.
move_entity(t, caller, motion) ==
    /\ pc[t] = "idle"
    /\ call' = [call EXCEPT ![t] = [op |-> "move_entity", attr |-> caller,
                                    value |-> motion]]
    /\ ncalls' = [ncalls EXCEPT ![t] = @ + 1]
    /\ trace' = [trace EXCEPT ![t] = <<>>]
    /\ IF caller = "player"
       THEN UNCHANGED <<pc, frame>>
       ELSE /\ frame' = [frame EXCEPT ![t] =
                            [caller |-> caller, motion |-> motion,
                             final_move |-> motion, no_clip |-> entity.no_clip,
                             bounding_box |-> <<>>, velocity_multiplier |-> One]]
            /\ pc' = [pc EXCEPT ![t] = IF entity.no_clip THEN "move_pos"
                                       ELSE "movement_multiplier_swap"]
    /\ UNCHANGED <<values, world, locks, ret, set_values, last_store, resolved,
                   construction, physics>>

\* The swap of movement_multiplier and the scaling of the motion.
movement_multiplier_swap(t) ==
    /\ pc[t] = "movement_multiplier_swap"
    /\ \E taken \in {entity.movement_multiplier} :
       \E scaled \in {multiplier_applies(taken)} :
       \E motion \in {IF scaled
                      THEN multiply(frame[t].motion, taken[1], taken[2], taken[3])
                      ELSE frame[t].motion} :
          /\ entity' = [entity EXCEPT !.movement_multiplier = multiplier_left(taken)]
          /\ frame' = [frame EXCEPT ![t].motion = motion]
          /\ trace' = [trace EXCEPT ![t] =
                          <<[taken |-> taken, scaled |-> scaled, motion |-> motion]>>]
          /\ pc' = [pc EXCEPT ![t] = IF scaled THEN "velocity_store_default"
                                     ELSE "adjust_movement_for_collisions"]
    /\ UNCHANGED <<values, world, locks, call, ncalls, ret, set_values, last_store,
                   resolved, construction, level, events>>

\* `self.velocity.store(Vector3::default())` after a scaling.
velocity_store_default(t) ==
    /\ pc[t] = "velocity_store_default"
    /\ entity' = [entity EXCEPT !.velocity = Vector3(Zero, Zero, Zero)]
    /\ pc' = [pc EXCEPT ![t] = "adjust_movement_for_collisions"]
    /\ UNCHANGED <<values, world, locks, call, ncalls, frame, ret, trace, set_values,
                   last_store, resolved, construction, level, events>>

\* adjust_movement_for_collisions(motion) up to its await, inside move_entity.
move_entity_adjust(t) ==
    /\ pc[t] = "adjust_movement_for_collisions"
    /\ entity' = flags_cleared(entity)
    /\ IF length_squared(frame[t].motion) = Zero
       THEN /\ frame' = [frame EXCEPT ![t].final_move = frame[t].motion]
            /\ pc' = [pc EXCEPT ![t] = "move_pos"]
       ELSE /\ frame' = [frame EXCEPT ![t].bounding_box = entity.bounding_box]
            /\ pc' = [pc EXCEPT ![t] = "move_get_block_collisions"]
    /\ UNCHANGED <<values, world, locks, call, ncalls, ret, trace, set_values,
                   last_store, resolved, construction, level, events>>

\* The await of get_block_collisions and the rest of the adjustment, inside
\* move_entity.
move_entity_get_block_collisions_await(t) ==
    /\ pc[t] = "move_get_block_collisions"
    /\ \E answer \in {get_block_collisions(level.blocks,
                                           stretch(frame[t].bounding_box,
                                                   frame[t].motion))} :
       \E out \in {adjusted(entity, [movement |-> frame[t].motion,
                                     bounding_box |-> frame[t].bounding_box],
                            answer)} :
          /\ entity' = out.entity
          /\ IF out.panicked
             THEN /\ pc' = [pc EXCEPT ![t] = "panicked"]
                  /\ UNCHANGED frame
             ELSE /\ pc' = [pc EXCEPT ![t] = "move_pos"]
                  /\ frame' = [frame EXCEPT ![t].final_move = out.value]
    /\ events' = Append(events, [op |-> "get_block_collisions", caller |-> t])
    /\ UNCHANGED <<values, world, locks, call, ncalls, ret, trace, set_values,
                   last_store, resolved, construction, level>>

\* `self.move_pos(final_move)`, or `self.move_pos(motion)` with no_clip set.
move_entity_move_pos(t) ==
    /\ pc[t] = "move_pos"
    /\ entity' = set_pos_stores(entity, VAdd(entity.pos, frame[t].final_move))
    /\ IF frame[t].no_clip
       THEN move_entity_returns(t)
       ELSE /\ pc' = [pc EXCEPT ![t] = "get_velocity_multiplier"]
            /\ UNCHANGED frame
    /\ UNCHANGED <<values, world, locks, call, ncalls, ret, trace, set_values,
                   last_store, resolved, construction, level, events>>

\* The await of get_velocity_multiplier(): the multiplier of the block the
\* entity is in.
get_velocity_multiplier_await(t) ==
    /\ pc[t] = "get_velocity_multiplier"
    /\ frame' = [frame EXCEPT ![t].velocity_multiplier = level.velocity_multiplier]
    /\ pc' = [pc EXCEPT ![t] = "velocity_store"]
    /\ events' = Append(events, [op |-> "get_block", caller |-> t])
    /\ UNCHANGED <<values, world, locks, call, ncalls, ret, trace, set_values,
                   last_store, resolved, construction, entity, level>>

\* `self.velocity.store(final_move * velocity_multiplier)`; a living entity
\* then updates its fall distance.
velocity_store(t) ==
    /\ pc[t] = "velocity_store"
    /\ entity' = [entity EXCEPT !.velocity =
                     VScale(frame[t].final_move, frame[t].velocity_multiplier)]
    /\ IF frame[t].caller = "living"
       THEN /\ pc' = [pc EXCEPT ![t] = "update_fall_distance"]
            /\ UNCHANGED frame
       ELSE move_entity_returns(t)
    /\ UNCHANGED <<values, world, locks, call, ncalls, ret, trace, set_values,
                   last_store, resolved, construction, level, events>>

\* The await of living.update_fall_distance(..).
update_fall_distance_await(t) ==
    /\ pc[t] = "update_fall_distance"
    /\ events' = Append(events, [op |-> "update_fall_distance", caller |-> t])
    /\ move_entity_returns(t)
    /\ UNCHANGED <<values, world, locks, call, ncalls, ret, trace, set_values,
                   last_store, resolved, construction, entity, level>>

\* -------------------------------------------------------- move specification
\* Two move_entity calls for one entity, one after the other or racing.

\* What the caller is: a player, a living entity, another entity.
CallerInputs == {"player", "living", "other"}

\* The motions asked for.
MotionInputs ==
    {Vector3(F64(1, 2), F64(-1, 2), Zero), Vector3(Zero, F64(-1, 1), Zero)}

\* The multiplier a block left in the cell: none, that of a cobweb, and one
\* too small to apply.
MultiplierInputs ==
    {Vector3(Zero, Zero, Zero),
     Vector3(F64(1, 4), F64(1, 16), F64(1, 4)),
     Vector3(F64(1, 4096), Zero, Zero)}

InitMove ==
    /\ AttributesInit
    /\ ThreadsInit
    /\ level = [blocks |-> FloorBlocks, fluids |-> <<>>,
                velocity_multiplier |-> F64(1, 2)]
    /\ \E m \in MultiplierInputs, no_clip \in BOOLEAN :
          entity = [Entity(Vector3(F64(1, 2), F64(3, 2), F64(1, 2)), FALSE, None, FALSE)
                       EXCEPT !.movement_multiplier = m, !.no_clip = no_clip]
    /\ events = <<>>

NextMove ==
    \E t \in Threads :
        \/ /\ ncalls[t] = 0
           /\ \E caller \in CallerInputs, motion \in MotionInputs :
                 move_entity(t, caller, motion)
        \/ movement_multiplier_swap(t)
        \/ velocity_store_default(t)
        \/ move_entity_adjust(t)
        \/ move_entity_get_block_collisions_await(t)
        \/ move_entity_move_pos(t)
        \/ get_velocity_multiplier_await(t)
        \/ velocity_store(t)
        \/ update_fall_distance_await(t)

SpecMove == InitMove /\ [][NextMove]_vars

\* ================================================================== tick
\* A tick of the entity (the collision adjustment, the fluid scan or the
\* block scan) beside another task that writes the entity's position or
\* resolves one of its attributes.

\* Where the writer puts the entity: within its block, further from the
\* wall, and in another chunk.
TickPositionInputs ==
    {Vector3(F64(1, 4), F64(1, 1), F64(1, 2)), Vector3(F64(16, 1), F64(1, 1), F64(1, 2))}

\* The movements of the tick: into the wall, and down onto the floor.
TickMovementInputs ==
    {Vector3(F64(2, 1), Zero, Zero), Vector3(Zero, F64(-1, 2), Zero)}

\* The entity stands on a floor block beside a wall, in a cell that holds
\* water and a block with an outline and no collision shape.
InitTick ==
    /\ builder = add(new, "ARMOR", F64(4, 1))
    /\ values = build(builder)
    /\ adds = <<>>
    /\ built = TRUE
    /\ equipment = EquipmentOf({0})
    /\ stacks = [h \in StackHandles |-> <<MixedModifiers>>]
    /\ main_hand \in {<<h>> : h \in StackHandles}
    /\ effects = [e \in {3} |-> 0]
    /\ effects_iter = <<3>>
    /\ ThreadsInit
    /\ level = [blocks |-> LedgeBlocks,
                fluids |-> [c \in {BlockPos(0, 1, 0)} |->
                               FluidState("WATER", F64(7, 8), Vector3(Zero, Zero, Zero))],
                dimension_type |-> "Overworld",
                states |-> [c \in BlockCells |->
                               IF c = BlockPos(0, 0, 0)
                               THEN BlockState(TRUE, CubeShapes, CubeShapes)
                               ELSE BlockState(FALSE, CubeShapes, <<>>)]]
    /\ entity = Entity(Vector3(F64(1, 2), F64(1, 1), F64(1, 2)), TRUE,
                       Some(BlockPos(0, 0, 0)), FALSE)
    /\ events = <<>>

NextTick ==
    \/ /\ ncalls["t1"] = 0
       /\ \E movement \in TickMovementInputs :
             adjust_movement_for_collisions("t1", movement)
    \/ get_block_collisions_await("t1")
    \/ /\ ncalls["t1"] = 0
       /\ \E is_pushed \in BOOLEAN : update_fluid_state("t1", is_pushed, TRUE)
    \/ get_fluid_and_fluid_state_await("t1")
    \/ on_entity_collision_fluid_await("t1")
    \/ update_fluid_state_return("t1")
    \/ /\ ncalls["t1"] = 0
       /\ tick_block_collisions("t1")
    \/ get_block_and_state_await("t1")
    \/ on_entity_collision_await("t1")
    \/ /\ ncalls["t2"] = 0
       /\ \E new_position \in TickPositionInputs : set_pos("t2", new_position)
    \/ pos_load("t2")
    \/ pos_store("t2")
    \/ bounding_box_store("t2")
    \/ block_pos_load("t2")
    \/ block_pos_store("t2")
    \/ chunk_pos_load("t2")
    \/ chunk_pos_store("t2")
    \/ /\ ncalls["t2"] = 0
       /\ get_modified("t2", "ARMOR")
    \/ get_modified_step("t2")

SpecTick == InitTick /\ [][NextTick]_vars

\* ------------------------------------------------ properties: resolution

\* A get_modified call of t for an attribute of the store has returned.
Resolved(t) ==
    /\ pc[t] = "idle"
    /\ call[t].op = "get_modified"
    /\ call[t].attr \in DOMAIN values

\* The slot indices each slot predicate accepts.
SlotAccepts(predicate) ==
    CASE predicate = "Any"      -> 0 .. 7
      [] predicate = "MainHand" -> {0}
      [] predicate = "OffHand"  -> {1}
      [] predicate = "Hand"     -> {0, 1}
      [] predicate = "Feet"     -> {2}
      [] predicate = "Legs"     -> {3}
      [] predicate = "Chest"    -> {4}
      [] predicate = "Head"     -> {5}
      [] predicate = "Armor"    -> {2, 3, 4, 5}
      [] predicate = "Body"     -> {6}
      [] predicate = "Saddle"   -> {7}

\* The (slot, stack) pairs the entity carries, the main hand counting as slot 0.
CarriedStacks ==
    {<<a, equipment[a]>> : a \in DOMAIN equipment}
    \cup {<<0, main_hand[k]>> : k \in DOMAIN main_hand}

\* Some carried item has a modifier for attr that is applicable to its slot.
ItemModifies(attr) ==
    \E c \in CarriedStacks :
        /\ stacks[c[2]] # <<>>
        /\ \E k \in DOMAIN stacks[c[2]][1] :
              /\ stacks[c[2]][1][k].type = attr
              /\ c[1] \in SlotAccepts(stacks[c[2]][1][k].slot)

\* Some active status effect has a modifier for attr.
EffectModifies(attr) ==
    \E e \in DOMAIN effects :
        \E k \in DOMAIN attribute_modifiers(e) : attribute_modifiers(e)[k].attribute = attr

\* The <<operation, amount>> pairs of the modifiers a call applied, in order.
Applied(t) ==
    LET hits == SelectSeq(trace[t], LAMBDA e : e.applied)
    IN  [k \in DOMAIN hits |-> <<hits[k].operation, hits[k].amount>>]

\* The base value of the attribute t's call names, as get_base returns it.
BaseOf(t) == values[call[t].attr].current_base_value

\* C1: with no applicable item modifier and no status-effect modifier for the
\* attribute, get_modified returns exactly the base value get_base returns.
C1_NoModifierGivesBase ==
    \A t \in Threads :
        (Resolved(t) /\ ~ItemModifies(call[t].attr) /\ ~EffectModifies(call[t].attr))
            => ret[t] = Ok(BaseOf(t))

\* C1 witness: a resolution that visited item and effect modifiers, none of
\* them for the attribute or applicable, and returned the base value.
C1_Witness ==
    \E t \in Threads :
        /\ Resolved(t)
        /\ ~ItemModifies(call[t].attr) /\ ~EffectModifies(call[t].attr)
        /\ \E k \in DOMAIN trace[t] : trace[t][k].source = "item"
        /\ \E k \in DOMAIN trace[t] : trace[t][k].source = "effect"
        /\ ret[t] = Ok(F64(2, 1))

\* C2: every applied AddMultipliedBase modifier, of an item or of a status
\* effect, adds amount * (the attribute's base value), whatever was applied
\* before it; base 10 with AddValue(+5) then AddMultipliedBase(0.5) gives 20.
C2_MultipliedBaseUsesBase ==
    \A t \in Threads :
        /\ \A k \in DOMAIN trace[t] :
              (trace[t][k].applied /\ trace[t][k].operation = "AddMultipliedBase")
                  => trace[t][k].after =
                         FAdd(trace[t][k].before, FMul(trace[t][k].amount, BaseOf(t)))
        /\ (/\ Resolved(t)
            /\ BaseOf(t) = F64(10, 1)
            /\ Applied(t) = <<<<"AddValue", F64(5, 1)>>,
                              <<"AddMultipliedBase", F64(1, 2)>>>>)
               => ret[t] = Ok(F64(20, 1))

\* C2 witness: base 10, AddValue(+5) then AddMultipliedBase(0.5), result 20.
C2_Witness ==
    \E t \in Threads :
        /\ Resolved(t)
        /\ BaseOf(t) = F64(10, 1)
        /\ Applied(t) = <<<<"AddValue", F64(5, 1)>>, <<"AddMultipliedBase", F64(1, 2)>>>>
        /\ ret[t] = Ok(F64(20, 1))

\* C3: every applied AddMultipliedTotal modifier adds amount * (the running
\* value at that moment), so two of them compound; base 10 with
\* AddMultipliedTotal(0.1) twice gives 12.1.
C3_MultipliedTotalCompounds ==
    \A t \in Threads :
        /\ \A k \in DOMAIN trace[t] :
              (trace[t][k].applied /\ trace[t][k].operation = "AddMultipliedTotal")
                  => trace[t][k].after =
                         FAdd(trace[t][k].before,
                              FMul(trace[t][k].amount, trace[t][k].before))
        /\ (/\ Resolved(t)
            /\ BaseOf(t) = F64(10, 1)
            /\ Applied(t) = <<<<"AddMultipliedTotal", F64(1, 10)>>,
                              <<"AddMultipliedTotal", F64(1, 10)>>>>)
               => ret[t] = Ok(F64(121, 10))

\* C3 witness: base 10, AddMultipliedTotal(0.1) twice, result 12.1.
C3_Witness ==
    \E t \in Threads :
        /\ Resolved(t)
        /\ BaseOf(t) = F64(10, 1)
        /\ Applied(t) = <<<<"AddMultipliedTotal", F64(1, 10)>>,
                          <<"AddMultipliedTotal", F64(1, 10)>>>>
        /\ ret[t] = Ok(F64(121, 10))

\* C6: item modifiers are applied in slot order, the main hand counting as
\* slot 0: of two applied item modifiers, the earlier is in a slot that is
\* not higher than the later's.
C6_SlotOrder ==
    \A t \in Threads :
        \A i, j \in DOMAIN trace[t] :
            (/\ i < j
             /\ trace[t][i].source = "item" /\ trace[t][i].applied
             /\ trace[t][j].source = "item" /\ trace[t][j].applied)
                => trace[t][i].slot <= trace[t][j].slot

\* C8: an item modifier is applied if and only if it is for the resolved
\* attribute and its slot predicate accepts the index of the slot that holds
\* the stack; a modifier that is not applied leaves the running value as it was.
C8_ItemModifierApplicability ==
    \A t \in Threads :
        \A k \in DOMAIN trace[t] :
            trace[t][k].source = "item" =>
                /\ trace[t][k].applied <=>
                      (/\ trace[t][k].attribute = call[t].attr
                       /\ trace[t][k].slot \in SlotAccepts(trace[t][k].predicate))
                /\ ~trace[t][k].applied => trace[t][k].after = trace[t][k].before
                /\ trace[t][k].applied => trace[t][k].after # trace[t][k].before

\* C8 witness: a stack in the head slot whose Armor and Head modifiers were
\* applied and whose Feet modifier and other-attribute modifier were not.
C8_Witness ==
    \E t \in Threads :
        /\ Resolved(t)
        /\ \E k \in DOMAIN trace[t] :
              /\ trace[t][k].slot = 5 /\ trace[t][k].predicate = "Armor"
              /\ trace[t][k].applied
        /\ \E k \in DOMAIN trace[t] :
              /\ trace[t][k].slot = 5 /\ trace[t][k].predicate = "Head"
              /\ trace[t][k].applied
        /\ \E k \in DOMAIN trace[t] :
              /\ trace[t][k].slot = 5 /\ trace[t][k].predicate = "Feet"
              /\ trace[t][k].attribute = call[t].attr
              /\ ~trace[t][k].applied
        /\ \E k \in DOMAIN trace[t] :
              /\ trace[t][k].source = "item"
              /\ trace[t][k].attribute # call[t].attr
              /\ ~trace[t][k].applied

\* The three operations as the specification states them.
Operate(operation, amount, base, running) ==
    CASE operation = "AddValue"           -> FAdd(running, amount)
      [] operation = "AddMultipliedBase"  -> FAdd(running, FMul(amount, base))
      [] operation = "AddMultipliedTotal" -> FAdd(running, FMul(amount, running))

\* The number of modifiers the status effects in E have.
RECURSIVE ModifierCount(_)
ModifierCount(E) ==
    IF E = {} THEN 0
    ELSE LET e == CHOOSE x \in E : TRUE
         IN  Len(attribute_modifiers(e)) + ModifierCount(E \ {e})

\* C9: a resolution visits every modifier of every active status effect after
\* all item modifiers, applies those for the resolved attribute with
\* amount = base_value * (amplifier + 1) under the three operations, and
\* skips the others.
C9_EffectModifiers ==
    \A t \in Threads :
        /\ \A k \in DOMAIN trace[t] :
              trace[t][k].source = "effect" =>
                  /\ trace[t][k].effect \in DOMAIN effects
                  /\ trace[t][k].amplifier = effects[trace[t][k].effect]
                  /\ trace[t][k].amount =
                         FMul(trace[t][k].raw, F64(trace[t][k].amplifier + 1, 1))
                  /\ trace[t][k].applied <=> trace[t][k].attribute = call[t].attr
                  /\ trace[t][k].after =
                         IF trace[t][k].attribute = call[t].attr
                         THEN Operate(trace[t][k].operation, trace[t][k].amount,
                                      BaseOf(t), trace[t][k].before)
                         ELSE trace[t][k].before
                  /\ \A j \in DOMAIN trace[t] : j > k => trace[t][j].source = "effect"
        /\ Resolved(t) =>
              /\ Cardinality({k \in DOMAIN trace[t] : trace[t][k].source = "effect"})
                     = ModifierCount(DOMAIN effects)
              /\ \A e \in DOMAIN effects :
                    \A m \in DOMAIN attribute_modifiers(e) :
                        \E k \in DOMAIN trace[t] :
                            /\ trace[t][k].effect = e
                            /\ trace[t][k].raw = attribute_modifiers(e)[m].base_value
                            /\ trace[t][k].attribute = attribute_modifiers(e)[m].attribute
                            /\ trace[t][k].operation = attribute_modifiers(e)[m].operation
              /\ ret[t] = Ok(IF trace[t] = <<>> THEN BaseOf(t)
                             ELSE trace[t][Len(trace[t])].after)

\* C9 witness: an item modifier was applied, then an effect modifier with
\* amplifier 1 (amount doubled), and a modifier of the same effect for another
\* attribute was skipped.
C9_Witness ==
    \E t \in Threads :
        /\ Resolved(t)
        /\ \E i, j, k \in DOMAIN trace[t] :
              /\ i < j
              /\ trace[t][i].source = "item" /\ trace[t][i].applied
              /\ trace[t][j].source = "effect" /\ trace[t][j].applied
              /\ trace[t][j].amplifier = 1
              /\ trace[t][j].amount = FMul(F64(2, 1), trace[t][j].raw)
              /\ trace[t][k].source = "effect" /\ ~trace[t][k].applied
              /\ trace[t][k].effect = trace[t][j].effect

\* C7: two resolutions of the same attribute over the same base value, the
\* same equipment and stack contents and the same active effects return the
\* same value.
C7_Reproducible ==
    \A t \in Threads :
        \A i, j \in DOMAIN resolved[t] :
            (/\ resolved[t][i].attr = resolved[t][j].attr
             /\ resolved[t][i].base = resolved[t][j].base
             /\ resolved[t][i].equipment = resolved[t][j].equipment
             /\ resolved[t][i].stacks = resolved[t][j].stacks
             /\ resolved[t][i].main_hand = resolved[t][j].main_hand
             /\ resolved[t][i].effects = resolved[t][j].effects)
                => resolved[t][i].value = resolved[t][j].value

\* ------------------------------------------------------ properties: store

\* t starts a call in this step.
Calls(t, op) == ncalls'[t] # ncalls[t] /\ call'[t].op = op

\* The locks t holds.
Held(t) ==
    (IF equipment_lock = t THEN {"equipment"} ELSE {})
    \cup (IF effects_lock = t THEN {"effects"} ELSE {})
    \cup {h \in StackHandles : stack_lock[h] = t}

\* C4: reset_base stores and returns the attribute's default, a get_base that
\* follows it with no set_base between returns that default, and no step
\* changes a default or the set of attributes.
C4_ResetRestoresDefault ==
    [][/\ \A t \in Threads :
             (Calls(t, "reset_base") /\ call'[t].attr \in DOMAIN values) =>
                 /\ ret'[t] = Ok(values[call'[t].attr].default)
                 /\ values'[call'[t].attr].current_base_value
                        = values[call'[t].attr].default
       /\ \A t \in Threads :
             (/\ Calls(t, "get_base")
              /\ call'[t].attr \in DOMAIN values
              /\ last_store[call'[t].attr].op = "reset_base") =>
                 ret'[t] = Ok(values[call'[t].attr].default)
       /\ DOMAIN values' = DOMAIN values
       /\ \A a \in DOMAIN values : values'[a].default = values[a].default]_vars

\* C4 witness: after set_base calls with values other than the default, a
\* reset_base and then a get_base that returned the default.
C4_Witness ==
    \E t \in Threads :
        /\ call[t].op = "get_base"
        /\ call[t].attr \in DOMAIN values
        /\ last_store[call[t].attr].op = "reset_base"
        /\ set_values[call[t].attr] # {}
        /\ values[call[t].attr].default \notin set_values[call[t].attr]
        /\ ret[t] = Ok(values[call[t].attr].default)

\* C5: a get_base, set_base, reset_base or get_modified call for an attribute
\* that is not in the store returns AttributeNoteFoundError at once, changes no
\* base value and takes no lock.
C5_AttributeNotFound ==
    /\ [][\A t \in Threads :
             (/\ ncalls'[t] # ncalls[t]
              /\ call'[t].op \in {"get_base", "set_base", "reset_base", "get_modified"}
              /\ call'[t].attr \notin DOMAIN values) =>
                 /\ ret'[t] = AttributeNoteFoundError
                 /\ pc'[t] = "idle"
                 /\ values' = values
                 /\ locks' = locks]_vars
    /\ [](\A t \in Threads :
             (call[t].op = "get_modified" /\ call[t].attr \notin DOMAIN values) =>
                 (pc[t] = "idle" /\ Held(t) = {}))

\* C5 witness: after a set_base changed the base value, one caller's
\* get_modified and the other's set_base for attributes that are not in the
\* store have both returned the error.
C5_Witness ==
    \E t, u \in Threads :
        /\ call[t].op = "get_modified" /\ call[t].attr \notin DOMAIN values
        /\ ret[t] = AttributeNoteFoundError
        /\ call[u].op = "set_base" /\ call[u].attr \notin DOMAIN values
        /\ ret[u] = AttributeNoteFoundError
        /\ \E a \in DOMAIN values : values[a].current_base_value # values[a].default

\* C10: at every moment a base value is the default or a value some set_base
\* call was given, and it is the value of the last store; get_base and
\* get_modified read that value and store nothing.
C10_WholesaleReplacement ==
    /\ [](\A a \in DOMAIN values :
             /\ values[a].current_base_value \in {values[a].default} \cup set_values[a]
             /\ values[a].current_base_value = last_store[a].value)
    /\ [][\A t \in Threads :
             /\ (Calls(t, "get_base") /\ call'[t].attr \in DOMAIN values) =>
                   /\ ret'[t] = Ok(last_store[call'[t].attr].value)
                   /\ values' = values
             /\ (Calls(t, "get_modified") /\ call'[t].attr \in DOMAIN values) =>
                   /\ frame'[t].base = last_store[call'[t].attr].value
                   /\ values' = values
             /\ (ncalls'[t] = ncalls[t] /\ pc'[t] # pc[t]) => values' = values]_vars

\* C10 witness: both values were given to set_base, the cell holds one of
\* them, a get_base returned it, and the other caller is inside get_modified.
C10_Witness ==
    \E t, u \in Threads :
        /\ \E a \in DOMAIN values :
              /\ set_values[a] = BaseInputs
              /\ values[a].current_base_value # values[a].default
              /\ call[t].op = "get_base" /\ call[t].attr = a
              /\ ret[t] = Ok(values[a].current_base_value)
        /\ pc[u] \notin {"idle", "lock_equipment"}

\* ---------------------------------------------------- properties: builder

\* The attributes the builder calls made so far name.
AddedAttributes == {adds[k].attr : k \in DOMAIN adds}

\* The default the builder calls give attr: the explicit value of the last
\* call that names it, or the registry's fallback if that call was
\* add_with_fallback_value.
AddedDefault(attr) ==
    LET last == CHOOSE k \in DOMAIN adds :
                    /\ adds[k].attr = attr
                    /\ \A j \in DOMAIN adds : adds[j].attr = attr => j <= k
    IN  IF adds[last].op = "add" THEN adds[last].value ELSE get_fallback(attr)

\* C11: once the store is built, get_base succeeds for exactly the attributes
\* added to the builder, under every sequence of get_base, set_base,
\* reset_base and get_modified calls; right after build each base value equals
\* its default, the explicit value given to add or the registry's fallback.
C11_BuiltAttributeSet ==
    /\ [](built =>
             /\ DOMAIN values = AddedAttributes
             /\ \A a \in DOMAIN values : values[a].default = AddedDefault(a))
    /\ [][/\ (~built /\ built') =>
                \A a \in AddedAttributes :
                    /\ a \in DOMAIN values'
                    /\ values'[a].current_base_value = AddedDefault(a)
          /\ built => (adds' = adds /\ DOMAIN values' = DOMAIN values)
          /\ \A t \in Threads :
                Calls(t, "get_base") =>
                    (ret'[t].ok <=> call'[t].attr \in AddedAttributes)]_vars

\* C11 witness: a store built from an explicit default and a registry
\* fallback that is not 0, after a set_base that succeeded; get_base has just
\* failed for an attribute that was not added.
C11_Witness ==
    /\ built
    /\ \E k \in DOMAIN adds : adds[k].op = "add"
    /\ \E k \in DOMAIN adds :
          /\ adds[k].op = "add_with_fallback_value"
          /\ values[adds[k].attr].default = F64(2, 1)
    /\ \E a \in DOMAIN values : set_values[a] # {}
    /\ call["t1"].op = "get_base"
    /\ call["t1"].attr \notin AddedAttributes
    /\ ret["t1"] = AttributeNoteFoundError

\* ----------------------------------------------------- properties: motion

ZeroVector == Vector3(Zero, Zero, Zero)

\* The three collision flags of the record r are clear.
FlagsClear(r) ==
    /\ r.on_ground = FALSE
    /\ r.supporting_block_pos = None
    /\ r.horizontal_collision = FALSE

\* C12: adjust_movement_for_collisions clears on_ground, supporting_block_pos
\* and horizontal_collision first; called with the zero vector it then returns
\* the zero vector without a world geometry query, and for every other request
\* the flags are clear when the geometry query is made.
C12_ZeroMovement ==
    /\ [][\A t \in Threads :
             Calls(t, "adjust_movement_for_collisions") =>
                 /\ FlagsClear(entity')
                 /\ events' = events
                 /\ call'[t].value = ZeroVector =>
                       /\ ret'[t] = ZeroVector
                       /\ pc'[t] = "idle"]_vars
    /\ [][events' # events =>
             /\ FlagsClear(entity)
             /\ FlagsClear(events'[Len(events')])]_vars

\* C12 witness: a first call landed the entity and was given back the zero
\* vector; the call with that zero vector has returned it, the flags are
\* clear and the only geometry query is that of the first call.
C12_Witness ==
    /\ ncalls["t1"] = 2
    /\ pc["t1"] = "idle"
    /\ call["t1"].value = ZeroVector
    /\ ret["t1"] = ZeroVector
    /\ Len(resolved["t1"]) = 1
    /\ resolved["t1"][1].movement # ZeroVector
    /\ Len(events) = 1
    /\ FlagsClear(entity)

\* t's call of adjust_movement_for_collisions has returned.
Adjusted(t) ==
    /\ pc[t] = "idle"
    /\ call[t].op = "adjust_movement_for_collisions"

\* The height of the bottom of the entity's box above the top face of the
\* shape, as a real number.
HeightAbove(shape) == FAdd(entity.bounding_box.min[AxisY], FNeg(shape.max[AxisY]))

\* C13: with the bottom of the box at height h above a single full-cube floor
\* block and a request straight down (X = Z = 0) by more than h, the movement
\* returned has the Y component -h exactly, on_ground is true and
\* supporting_block_pos is the floor block's position.
C13_LandsOnFloor ==
    \A t \in Threads :
        LET floor    == FloorBlocks[1]
            h        == HeightAbove(floor.shapes[1])
            movement == call[t].value
        IN  (/\ Adjusted(t)
             /\ level.blocks = FloorBlocks
             /\ overlaps(entity.bounding_box, floor.shapes[1], {AxisX, AxisZ})
             /\ movement[AxisX] = Zero /\ movement[AxisZ] = Zero
             /\ FLeq(Zero, h) /\ FLess(h, FNeg(movement[AxisY])))
                => /\ ret[t] = Vector3(Zero, FNeg(h), Zero)
                   /\ entity.on_ground
                   /\ entity.supporting_block_pos = Some(floor.pos)

\* C14: the adjustment is idempotent: a call that is given, from the same
\* box, the movement an earlier call returned gives that movement back
\* unchanged.
C14_Idempotent ==
    \A t \in Threads :
        \A i, j \in DOMAIN resolved[t] :
            (/\ i < j
             /\ resolved[t][j].bounding_box = resolved[t][i].bounding_box
             /\ resolved[t][j].movement = resolved[t][i].value)
                => resolved[t][j].value = resolved[t][j].movement

\* The Y collision time of the k-th shape the world returned to t's call,
\* taken by itself.
YTime(t, k) ==
    calculate_collision_time(entity.bounding_box, trace[t].collisions[k],
                             call[t].value, AxisY, One)

\* The shapes that have a Y collision time, and those of them with the least.
YHits(t) == {k \in DOMAIN trace[t].collisions : YTime(t, k) # None}
YFirst(t) ==
    {k \in YHits(t) : \A j \in YHits(t) : FLeq(YTime(t, k)[1], YTime(t, j)[1])}

\* t's call has returned after a world query.
Queried(t) == Adjusted(t) /\ trace[t] # <<>>

\* C18: the call does not panic: for every non-empty list of shapes and the
\* list of (end index, position) pairs the world returns with it, the walk of
\* the Y-axis pass through the pairs does not step past the end of the list.
C18_NoPanic ==
    \A t \in Threads :
        /\ pc[t] # "panicked"
        /\ Queried(t) =>
              /\ trace[t].collisions # <<>> => trace[t].block_positions # <<>>
              /\ \A k \in DOMAIN trace[t].block_positions :
                    /\ trace[t].block_positions[k][1] <= Len(trace[t].collisions)
                    /\ k > 1 => trace[t].block_positions[k - 1][1]
                                    < trace[t].block_positions[k][1]

\* C18 witness: a Y-axis pass has walked three shapes of two blocks, the
\* first block giving two of them, and the call has returned.
C18_Witness ==
    /\ Queried("t1")
    /\ trace["t1"].y_ran
    /\ Len(trace["t1"].collisions) = 3
    /\ Len(trace["t1"].block_positions) = 2
    /\ trace["t1"].block_positions[1][1] = 2

PassMovement(t, axis) ==
    [k \in 1 .. 3 |->
        IF k = AxisY \/ (axis = AxisZ /\ k = AxisX) THEN ret[t][k]
        ELSE call[t].value[k]]

\* The collision time of the k-th shape on a horizontal axis, taken by
\* itself, the shapes that have one, and the least of them.
HTime(t, axis, k) ==
    calculate_collision_time(entity.bounding_box, trace[t].collisions[k],
                             PassMovement(t, axis), axis, One)
HHits(t, axis) == {k \in DOMAIN trace[t].collisions : HTime(t, axis, k) # None}
HMin(t, axis) ==
    HTime(t, axis, CHOOSE k \in HHits(t, axis) :
                       \A j \in HHits(t, axis) :
                           FLeq(HTime(t, axis, k)[1], HTime(t, axis, j)[1]))[1]

\* C21: when the call returns, horizontal_collision is true exactly if a shape
\* gave the X or the Z pass a collision time; an axis without one is returned
\* unchanged, an axis with one is returned scaled by the least time, which is
\* below 1, and is shorter than requested.
C21_HorizontalCollisionIffShortened ==
    \A t \in Threads :
        /\ (Adjusted(t) /\ trace[t] = <<>>) =>
              ~entity.horizontal_collision /\ ret[t] = call[t].value
        /\ Queried(t) =>
              /\ entity.horizontal_collision <=>
                    \E axis \in {AxisX, AxisZ} : HHits(t, axis) # {}
              /\ \A axis \in {AxisX, AxisZ} :
                    IF HHits(t, axis) = {}
                    THEN ret[t][axis] = call[t].value[axis]
                    ELSE /\ FLess(HMin(t, axis), One)
                         /\ ret[t][axis] = RMul(call[t].value[axis], HMin(t, axis))
                         /\ FLess(FAbs(ret[t][axis]), FAbs(call[t].value[axis]))

\* C21 witness: X was shortened by a wall and Z, also requested, was not.
C21_Witness ==
    /\ Queried("t1")
    /\ HHits("t1", AxisX) # {}
    /\ call["t1"].value[AxisZ] # Zero
    /\ HHits("t1", AxisZ) = {}
    /\ ret["t1"][AxisZ] = call["t1"].value[AxisZ]
    /\ ret["t1"][AxisX] # call["t1"].value[AxisX]
    /\ entity.horizontal_collision

\* The movement with the Y component already adjusted and the horizontal
\* components as requested.
YAdjustedMovement(t) ==
    [k \in 1 .. 3 |-> IF k = AxisY THEN ret[t][k] ELSE call[t].value[k]]

\* The collision times of a horizontal axis against that movement.
ITime(t, axis, k) ==
    calculate_collision_time(entity.bounding_box, trace[t].collisions[k],
                             YAdjustedMovement(t), axis, One)
IHits(t, axis) == {k \in DOMAIN trace[t].collisions : ITime(t, axis, k) # None}
IMin(t, axis) ==
    ITime(t, axis, CHOOSE k \in IHits(t, axis) :
                       \A j \in IHits(t, axis) :
                           FLeq(ITime(t, axis, k)[1], ITime(t, axis, j)[1]))[1]

\* C22: each horizontal pass works on the movement whose Y component is the
\* adjusted one and whose horizontal components are the requested ones: the
\* component returned for X and for Z is the requested one scaled by the least
\* collision time against that movement, whatever happened to the other
\* horizontal axis.
C22_HorizontalPassesIndependent ==
    \A t \in Threads :
        Queried(t) =>
            \A axis \in {AxisX, AxisZ} :
                ret[t][axis] =
                    IF IHits(t, axis) = {} THEN call[t].value[axis]
                    ELSE RMul(call[t].value[axis], IMin(t, axis))

\* C28: each component returned by adjust_movement_for_collisions is not of
\* the opposite sign of the requested component and not larger in absolute
\* value; a requested component of zero is returned as zero.
C28_ComponentsOnlyShrink ==
    \A t \in Threads :
        Adjusted(t) =>
            \A axis \in 1 .. 3 :
                /\ FLeq(Zero, FMul(ret[t][axis], call[t].value[axis]))
                /\ FLeq(FAbs(ret[t][axis]), FAbs(call[t].value[axis]))
                /\ call[t].value[axis] = Zero => ret[t][axis] = Zero

\* A call that shortened one component to a smaller non-zero value, left a
\* zero component zero and shortened another component to zero.
C28_Witness ==
    /\ Queried("t1")
    /\ \E axis \in 1 .. 3 :
          /\ ret["t1"][axis] # Zero
          /\ FLess(FAbs(ret["t1"][axis]), FAbs(call["t1"].value[axis]))
    /\ \E axis \in 1 .. 3 : call["t1"].value[axis] = Zero

\* A call whose collision time was zero: the component is returned as zero.
C28_WitnessZeroTime ==
    /\ Queried("t1")
    /\ \E axis \in 1 .. 3 :
          /\ call["t1"].value[axis] # Zero
          /\ ret["t1"][axis] = Zero

\* C29: when the requested Y component is zero, or the world answers with no
\* collision shape, adjust_movement_for_collisions returns with on_ground
\* false and supporting_block_pos None, whatever they were before the call.
C29_GroundStateCleared ==
    \A t \in Threads :
        (/\ Adjusted(t)
         /\ \/ call[t].value[AxisY] = Zero
            \/ trace[t] = <<>>
            \/ trace[t].collisions = <<>>)
            => /\ ~entity.on_ground
               /\ entity.supporting_block_pos = None

\* The first call stopped the entity on a block (its Y component, not zero,
\* came back as zero, so the Y pass found a supporting block); the second
\* call, asked for that movement, reached the world query and returned with
\* the ground state cleared.
C29_Witness ==
    /\ Queried("t1")
    /\ ncalls["t1"] = 2
    /\ Len(resolved["t1"]) = 2
    /\ resolved["t1"][1].movement[AxisY] # Zero
    /\ resolved["t1"][1].value[AxisY] = Zero
    /\ call["t1"].value[AxisY] = Zero
    /\ ~entity.on_ground
    /\ entity.supporting_block_pos = None

\* ---------------------------------------------------- properties: fluid scan

\* The entity's box shrunk by 0.001 on every side, and the cells it overlaps.
ShrunkBox ==
    expand(entity.bounding_box, Literal(-1, 1000), Literal(-1, 1000), Literal(-1, 1000))
OverlappedCells ==
    {BlockPos(x, y, z) :
        x \in Floor(ShrunkBox.min[1]) .. Floor(ShrunkBox.max[1]),
        y \in Floor(ShrunkBox.min[2]) .. Floor(ShrunkBox.max[2]),
        z \in Floor(ShrunkBox.min[3]) .. Floor(ShrunkBox.max[3])}

FluidAt(pos) == IF pos \in DOMAIN level.fluids THEN level.fluids[pos] ELSE EmptyFluid

\* fluid height + cell y - shrunk box bottom
MarginalHeight(pos) ==
    RSub(RAdd(FluidAt(pos).height, F64(pos[2], 1)), ShrunkBox.min[2])

Water == {FluidId("FLOWING_WATER"), FluidId("WATER")}
Lava == {FluidId("FLOWING_LAVA"), FluidId("LAVA")}

\* The overlapped cells that hold a fluid of the category at a marginal
\* height >= 0.
Touched(category) ==
    {pos \in OverlappedCells :
        FluidAt(pos).id \in category /\ FLeq(Zero, MarginalHeight(pos))}

MaxMarginalHeight(cells) ==
    IF cells = {} THEN Zero
    ELSE MarginalHeight(CHOOSE pos \in cells :
            \A o \in cells : FLeq(MarginalHeight(o), MarginalHeight(pos)))

ScanDone(t) == pc[t] = "idle" /\ call[t].op = "update_fluid_state"

\* C15: after a fluid scan, for water and for lava, the touching flag says
\* whether some overlapped cell holds a fluid of the category at a marginal
\* height >= 0, and the stored height is the greatest such marginal height,
\* 0 when there is none, whatever the flags and heights were before.
C15_FluidFlagsAndHeights ==
    ScanDone("t1") =>
        /\ entity.touching_water = (Touched(Water) # {})
        /\ entity.water_height = MaxMarginalHeight(Touched(Water))
        /\ entity.touching_lava = (Touched(Lava) # {})
        /\ entity.lava_height = MaxMarginalHeight(Touched(Lava))

\* An entity that touched lava before now overlaps water only, at two
\* different marginal heights: it ends touching water at the greater one and
\* with the lava flag and height cleared.
C15_Witness ==
    /\ ScanDone("t1")
    /\ trace["t1"].before.touching_lava
    /\ trace["t1"].before.lava_height # Zero
    /\ \A pos \in OverlappedCells : FluidAt(pos).id \in Water
    /\ Cardinality({MarginalHeight(pos) : pos \in Touched(Water)}) >= 2
    /\ entity.touching_water
    /\ entity.water_height = MaxMarginalHeight(Touched(Water))
    /\ entity.water_height # Zero
    /\ ~entity.touching_lava
    /\ entity.lava_height = Zero

\* The cells examined and the callbacks invoked so far, in order.
Examined == SelectSeq(events, LAMBDA e : e.op = "get_fluid_and_fluid_state")
Callbacks == SelectSeq(events, LAMBDA e : e.op = "on_entity_collision_fluid")
FoundIds == {FluidAt(pos).id : pos \in Touched(Water) \cup Touched(Lava)}

\* C16: in a fluid scan the callbacks come after all cells were examined,
\* one per fluid identifier found at a marginal height >= 0, in ascending
\* order of identifier, so water callbacks precede lava callbacks.
C16_CallbackOrder ==
    /\ \A i, j \in DOMAIN events :
          (/\ events[i].op = "on_entity_collision_fluid"
           /\ events[j].op = "get_fluid_and_fluid_state") => j < i
    /\ \A i, j \in DOMAIN Callbacks : i < j => Callbacks[i].id < Callbacks[j].id
    /\ \A i, j \in DOMAIN Callbacks :
          (Callbacks[i].id \in Water /\ Callbacks[j].id \in Lava) => i < j
    /\ ScanDone("t1") =>
          /\ {Examined[k].pos : k \in DOMAIN Examined} = OverlappedCells
          /\ Len(Examined) = Cardinality(OverlappedCells)
          /\ {Callbacks[i].id : i \in DOMAIN Callbacks} = FoundIds

\* Lava was found in the first cell examined and water in a later one; the
\* callbacks still start with the water.
C16_Witness ==
    /\ ScanDone("t1")
    /\ Examined[1].pos \in Touched(Lava)
    /\ Touched(Water) # {}
    /\ Len(Callbacks) >= 3
    /\ Callbacks[1].id \in Water
    /\ Callbacks[Len(Callbacks)].id \in Lava

\* ------------------------------------------------------ properties: position

\* The box derived from the entity's pos and its dimensions.
DerivedBox ==
    new_from_pos(entity.pos[1], entity.pos[2], entity.pos[3], bounding_box_size)

Quiet == \A t \in Threads : pc[t] = "idle"

\* C17: under any interleaving of set_pos and move_pos callers the entity's
\* bounding_box is the box derived from its pos and its dimensions; here in
\* the weakest reading, when every caller has finished.
C17_BoxFollowsPos == Quiet => entity.bounding_box = DerivedBox

\* ---------------------------------------------------- properties: block scan

BlockScanDone(t) ==
    /\ pc[t] = "idle"
    /\ call[t].op = "tick_block_collisions"

\* A collision shape of a solid block in a cell the scan visited meets the
\* eye-level box.
SolidAtEyeLevel(t) ==
    \E k \in DOMAIN trace[t].cells :
        LET pos   == trace[t].cells[k]
            state == get_block_and_state(level.states, pos)
        IN  /\ state.is_solid
            /\ \E j \in DOMAIN state.collision_shapes :
                  intersects(shapes_at_pos(state.collision_shapes, pos)[j],
                             trace[t].eye_level_box)

\* C23: tick_block_collisions returns true exactly when a cell it visited
\* holds a solid block one of whose collision shapes meets the eye-level box.
C23_SuffocatingIffSolidAtEyeLevel ==
    \A t \in Threads :
        BlockScanDone(t) => (ret[t] = TRUE <=> SolidAtEyeLevel(t))

\* The intersection test is made only for solid blocks and only while the
\* result is still false.
C23_TestedOnlyWhileFalse ==
    \A t \in Threads :
        BlockScanDone(t) =>
            \A k \in DOMAIN trace[t].tested :
                trace[t].tested[k].is_solid /\ ~trace[t].tested[k].before

\* --------------------------------------------------------- properties: locks

\* t waits for a lock.
Requests(t) == pc[t] \in {"lock_equipment", "lock_stack", "lock_effects"}

\* C24: get_modified holds at most one lock at any moment: whenever it asks
\* for a lock (the equipment lock, the lock of the next item stack, the
\* effects lock) it holds none, and a step that gives it a lock starts from a
\* state in which it held none.
C24_OneLockAtATime ==
    /\ [](\A t \in Threads :
             /\ Cardinality(Held(t)) <= 1
             /\ Requests(t) => Held(t) = {})
    /\ [][\A t \in Threads :
             ((Held(t))' # Held(t) /\ (Held(t))' # {}) => Held(t) = {}]_vars

\* C24 witness: a call that has taken and released the equipment lock and,
\* twice, the lock of the stack that is both equipped and the main_hand
\* override, and now holds the effects lock alone, while the other locks are
\* in other hands.
C24_Witness ==
    /\ pc["t1"] = "effect_modifiers"
    /\ Held("t1") = {"effects"}
    /\ Len(frame["t1"].equipment_data) = 2
    /\ frame["t1"].equipment_data[1][2] = frame["t1"].equipment_data[2][2]
    /\ equipment_lock = "t2"
    /\ stack_lock[frame["t1"].equipment_data[1][2]] = Holder

\* The base value of t's current or last resolution.
BaseRead(t) ==
    IF pc[t] = "idle" THEN resolved[t][Len(resolved[t])].base ELSE frame[t].base

\* The value that the <<operation, amount>> pairs from the k-th on make of
\* `modified` with one base.
RECURSIVE FromBase(_, _, _, _)
FromBase(applied, k, base, modified) ==
    IF k > Len(applied) THEN modified
    ELSE FromBase(applied, k + 1, base,
             CASE applied[k][1] = "AddValue" -> FAdd(modified, applied[k][2])
               [] applied[k][1] = "AddMultipliedBase" ->
                      FAdd(modified, FMul(applied[k][2], base))
               [] applied[k][1] = "AddMultipliedTotal" ->
                      FAdd(modified, FMul(applied[k][2], modified)))

\* C26: get_modified reads the base value when the call begins, holding no
\* lock, and keeps it to the end of the call; every AddMultipliedBase
\* modifier it applies adds amount * that value, the first modifier starts
\* from that value, and the call returns the value the applied modifiers make
\* of that one base, whatever set_base and reset_base store meanwhile.
C26_BaseReadOnce ==
    /\ [][\A t \in Threads :
             /\ (Calls(t, "get_modified") /\ call'[t].attr \in DOMAIN values) =>
                   /\ frame'[t].base = values[call'[t].attr].current_base_value
                   /\ (Held(t))' = {}
             /\ (pc[t] # "idle" /\ pc'[t] # "idle") => frame'[t].base = frame[t].base]_vars
    /\ [](\A t \in Threads :
             /\ \A k \in DOMAIN trace[t] :
                   /\ (trace[t][k].applied
                       /\ trace[t][k].operation = "AddMultipliedBase") =>
                          trace[t][k].after =
                              FAdd(trace[t][k].before,
                                   FMul(trace[t][k].amount, BaseRead(t)))
                   /\ k = 1 => trace[t][k].before = BaseRead(t)
             /\ Resolved(t) =>
                   ret[t] = Ok(FromBase(Applied(t), 1, BaseRead(t), BaseRead(t))))

\* C26 witness: a resolution that applied AddMultipliedBase modifiers and
\* returned while the cell no longer held the base value it had read.
C26_Witness ==
    \E t \in Threads :
        /\ Resolved(t)
        /\ resolved[t][Len(resolved[t])].base_at_return # BaseRead(t)
        /\ \E k \in DOMAIN trace[t] :
              trace[t][k].applied /\ trace[t][k].operation = "AddMultipliedBase"
        /\ ret[t] = Ok(FromBase(Applied(t), 1, BaseRead(t), BaseRead(t)))

\* C30: every get_modified call returns: a caller that is inside the call is
\* later outside it, whatever the other caller and the other holders of the
\* equipment, item-stack and effects locks do, as long as they release them.
C30_GetModifiedTerminates ==
    \A t \in Threads : (pc[t] # "idle") ~> (pc[t] = "idle")

\* C30 witness: both callers wait for the lock of the stack that is both
\* equipped and the main_hand override, one of them for the second time,
\* while another holder has it.
C30_Witness ==
    /\ main_hand[1] = equipment[0]
    /\ pc["t1"] = "lock_stack" /\ frame["t1"].i = 2
    /\ pc["t2"] = "lock_stack"
    /\ stack_lock[main_hand[1]] = Holder

\* ---------------------------------------------------------- properties: move

\* The call of t has taken the movement multiplier.
Swapped(t) == call[t].op = "move_entity" /\ Len(trace[t]) = 1

\* The calls whose motion was scaled by a multiplier.
ScaledCalls == {t \in Threads : Swapped(t) /\ trace[t][1].scaled}

\* C27: the movement multiplier applies to one movement only. The step that
\* takes it leaves zero in the cell, a call scales its motion by exactly the
\* multiplier it took, a call that took zero moves unscaled, and with one
\* multiplier stored at most one of two racing calls is scaled.
C27_MultiplierAppliesOnce ==
    /\ [](/\ Cardinality(ScaledCalls) <= 1
          /\ \A t \in Threads :
                Swapped(t) =>
                   \E taken \in {trace[t][1].taken} :
                      /\ trace[t][1].motion =
                            IF trace[t][1].scaled
                            THEN Vector3(RMul(call[t].value[1], taken[1]),
                                         RMul(call[t].value[2], taken[2]),
                                         RMul(call[t].value[3], taken[3]))
                            ELSE call[t].value
                      /\ taken = Vector3(Zero, Zero, Zero) => ~trace[t][1].scaled)
    /\ [][\A t \in Threads :
             (pc[t] = "movement_multiplier_swap" /\ pc'[t] # pc[t]) =>
                /\ entity'.movement_multiplier = Vector3(Zero, Zero, Zero)
                /\ trace'[t][1].taken = entity.movement_multiplier]_vars

\* Two calls race past the swap with a multiplier stored: one is scaled, the
\* other took zero and is not.
C27_Witness ==
    /\ pc["t1"] = "move_get_block_collisions"
    /\ pc["t2"] = "move_get_block_collisions"
    /\ Swapped("t1") /\ Swapped("t2")
    /\ trace["t1"][1].scaled
    /\ trace["t1"][1].motion # call["t1"].value
    /\ ~trace["t2"][1].scaled
    /\ trace["t2"][1].taken = Vector3(Zero, Zero, Zero)
    /\ trace["t2"][1].motion = call["t2"].value

\* ---------------------------------------------------------- properties: tick

\* The tick of t is suspended on a query of the world.
Suspended(t) ==
    pc[t] \in {"get_block_collisions", "get_fluid_and_fluid_state",
               "on_entity_collision_fluid", "get_block_and_state",
               "on_entity_collision"}

\* A load or a store of pos, block_pos or chunk_pos by a call of set_pos.
accesses_cell(u) ==
    \/ pos_load(u) \/ pos_store(u)
    \/ block_pos_load(u) \/ block_pos_store(u)
    \/ chunk_pos_load(u) \/ chunk_pos_store(u)

\* C25: a tick suspended on a world query holds no lock of the entity, so
\* that another task that waits for one of the entity's locks, or is about to
\* load or store one of its position cells, can take its next step; and what
\* adjust_movement_for_collisions returns is computed from the bounding box
\* it loaded before the query, whatever the cell holds when the query
\* answers.
C25_SuspendedTickBlocksNothing ==
    /\ \A t \in Threads :
          Suspended(t) =>
             /\ Held(t) = {}
             /\ \A u \in Threads \ {t} :
                   /\ Requests(u) => ENABLED takes_lock(u)
                   /\ pc[u] \in {"pos_load", "pos_store", "block_pos_load",
                               "block_pos_store", "chunk_pos_load", "chunk_pos_store"}
                         => ENABLED accesses_cell(u)
    /\ \A t \in Threads :
          call[t].op = "adjust_movement_for_collisions" =>
             \A k \in DOMAIN resolved[t] :
                \E r \in {resolved[t][k]} :
                   r.value =
                      adjusted(entity,
                               [movement |-> r.movement, bounding_box |-> r.bounding_box],
                               get_block_collisions(level.blocks,
                                                    stretch(r.bounding_box,
                                                            r.movement))).value

\* C25 witness: the position was written while the adjustment was suspended,
\* so that the cell no longer held the box the call had loaded when the query
\* answered, and the movement was shortened at the wall as seen from the
\* loaded box.
C25_Witness ==
    /\ Len(resolved["t1"]) = 1
    /\ call["t2"].op = "set_pos"
    /\ resolved["t1"][1].bounding_box # resolved["t1"][1].bounding_box_at_return
    /\ resolved["t1"][1].movement = Vector3(F64(2, 1), Zero, Zero)
    /\ resolved["t1"][1].value = Vector3(F64(1, 4), Zero, Zero)

\* A fluid scan is suspended while the other task waits for a lock it is
\* then given.
C25_WitnessSuspended ==
    /\ pc["t1"] = "get_fluid_and_fluid_state"
    /\ pc["t2"] = "lock_stack"

====
